---------------------------- MODULE Spec2Model ----------------------------
(***************************************************************************)
(* A model of the sproto codec of src/src/sproto.ts (first implementation, *)
(* lines 131-2024): the pack/unpack framer, the record encoder and         *)
(* decoder, and the RPC host with its session table.                       *)
(*                                                                         *)
(* JavaScript arrays are sequences whose element k (0-based) is element    *)
(* k+1 of the sequence; a hole or an out-of-range read is Undefined.       *)
(***************************************************************************)
EXTENDS Integers, Sequences, FiniteSets, TLC

VARIABLES
    pc,         \* position of the scenario being run
    inbuf,      \* pack scenario: the byte array handed to api.pack
    packed,     \* pack scenario: what api.pack returned
    unpacked,   \* pack scenario: what api.unpack returned for packed
    wrtype,     \* codec scenario: the name of the type handed to sp.encode
    srcval,     \* codec scenario: the object handed to sp.encode
    encoded,    \* codec scenario: what sp.encode returned
    rdtype,     \* codec scenario: the name of the type handed to sp.decode
    decoded,    \* codec scenario: what sp.decode returned
    hostSession, \* rpc scenario: this.session of every host
    attachsp,   \* rpc scenario: whether attach has set this.attachsp
    wire,       \* rpc scenario: the messages sent and not yet dispatched
    funcs,      \* rpc scenario: the responseFunc closures not yet called
    lastCall,   \* rpc scenario: the latest call and what it returned
    pending,    \* rpc scenario: per host, the sessions of the requests it
                \* sent whose response it has not dispatched (history)
    sent,       \* rpc scenario: the number of calls that built a message
    damage,     \* damage scenario: what was done to the encoded bytes
    level,      \* deep scenario: how many records deep the record lies
    schema,     \* load scenario: the schema the bundle was compiled from
    bundle,     \* load scenario: the bytes handed to api.createNew
    loaded,     \* load scenario: what api.createNew returned
    alertDefined \* whether the environment defines the global alert

packVars == <<inbuf, packed, unpacked>>

codecVars == <<wrtype, srcval, encoded, rdtype, decoded, damage, level>>

rpcVars == <<hostSession, attachsp, wire, funcs, lastCall, pending, sent>>

loadVars == <<schema, bundle, loaded>>

vars == <<pc, packVars, codecVars, rpcVars, loadVars, alertDefined>>

(***************************************************************************)
(* Bounds of the model.                                                    *)
(***************************************************************************)
\* number of 8-byte blocks an input of the pack scenario is cut from
MaxSegs == 3

\* length of the arrays in the values of the codec scenario
MaxArr == 2

\* the session ids of the rpc scenario are 0..MaxSession
MaxSession == 1

\* number of messages built in a run of the rpc scenario
MaxMsgs == 2

\* the sessions of the order scenario are 1..MaxOutstanding
MaxOutstanding == 2

\* a record of the deep scenario lies 0..MaxLevel records deep
MaxLevel == 66

\* a record of the deep scenario nests 1..MaxNest records
MaxNest == 5

(***************************************************************************)
(* JavaScript array primitives.                                            *)
(***************************************************************************)
\* what JavaScript calls undefined: a hole of an array, a read past its end
Undefined == -1

\* a[i] of a JavaScript array
At(a, i) == IF i >= 0 /\ i < Len(a) THEN a[i + 1] ELSE Undefined

\* a[i] = v of a JavaScript array: a write past the end leaves holes
SetAt(a, i, v) ==
    IF i < Len(a)
    THEN [a EXCEPT ![i + 1] = v]
    ELSE a \o [k \in 1..(i - Len(a)) |-> Undefined] \o <<v>>

\* a.slice(from): the elements from index `from` on
SliceFrom(a, from) == SubSeq(a, from + 1, Len(a))

\* a.slice(from, to)
Slice(a, from, to) ==
    SubSeq(a, from + 1, IF to < Len(a) THEN to ELSE Len(a))

\* 2^n
RECURSIVE Pow2(_)
Pow2(n) == IF n = 0 THEN 1 ELSE 2 * Pow2(n - 1)

(***************************************************************************)
(* Pack / unpack framer.                                                   *)
(***************************************************************************)
\* let bufsz = 1 << 30
BufSz == 1073741824

\* the for loop of packSeg over the 8 bytes of a block
RECURSIVE packSegLoop(_, _, _, _, _, _, _, _)
packSegLoop(src, srcIdx, buffer, bufferIdx, sz, i, header, notzero) ==
    IF i >= 8
    THEN [buffer |-> buffer, header |-> header, notzero |-> notzero]
    ELSE IF At(src, srcIdx + i) # 0
         THEN IF sz > 0
              THEN packSegLoop(src, srcIdx,
                               SetAt(buffer, bufferIdx, At(src, srcIdx + i)),
                               bufferIdx + 1, sz - 1, i + 1,
                               header + Pow2(i), notzero + 1)
              ELSE packSegLoop(src, srcIdx, buffer, bufferIdx, sz, i + 1,
                               header + Pow2(i), notzero + 1)
         ELSE packSegLoop(src, srcIdx, buffer, bufferIdx, sz, i + 1,
                          header, notzero)

\* a 6- or 7-byte block counts as full wherever it stands
packSegFullAnywhere(notzero, n) ==
    IF notzero = 7 \/ notzero = 6 THEN 8 ELSE notzero

\* a 6- or 7-byte block inside a dense run counts as full
packSegFull(notzero, n) ==
    IF (notzero = 7 \/ notzero = 6) /\ n > 0 THEN 8 ELSE notzero

packSeg(src, srcIdx, buffer, bufferIdx, sz, n) ==
    IF sz - 1 < 0
    THEN [n |-> 10, buffer |-> buffer]
    ELSE LET Then(l) ==
               IF packSegFull(l.notzero, n) = 8
               THEN [n |-> IF n > 0 THEN 8 ELSE 10, buffer |-> l.buffer]
               ELSE [n |-> packSegFull(l.notzero, n) + 1,
                     buffer |-> SetAt(l.buffer, bufferIdx, l.header)]
         IN  Then(packSegLoop(src, srcIdx, buffer, bufferIdx + 1, sz - 1,
                              0, 0, 0))

\* des[destIdx + i + 2] = src[srcIdx + i] for i in from..n-1
RECURSIVE writeFfCopy(_, _, _, _, _, _)
writeFfCopy(src, srcIdx, des, destIdx, i, n) ==
    IF i >= n THEN des
    ELSE writeFfCopy(src, srcIdx,
                     SetAt(des, destIdx + i + 2, At(src, srcIdx + i)),
                     destIdx, i + 1, n)

\* des[destIdx + n + 2 + i] = 0 for i in from..cnt-1
RECURSIVE writeFfPad(_, _, _, _, _)
writeFfPad(des, destIdx, n, i, cnt) ==
    IF i >= cnt THEN des
    ELSE writeFfPad(SetAt(des, destIdx + n + 2 + i, 0), destIdx, n, i + 1, cnt)

writeFf(src, srcIdx, des, destIdx, n) ==
    LET align8N == ((n + 7) \div 8) * 8
        d1 == SetAt(des, destIdx, 255)
        d2 == SetAt(d1, destIdx + 1, (align8N \div 8) - 1)
        d3 == writeFfCopy(src, srcIdx, d2, destIdx, 0, n)
    IN  writeFfPad(d3, destIdx, n, 0, align8N - n)

\* the last, short block copied into tmp without the zero padding
packTmpUnpadded(src, srcIdx, padding) ==
    [j \in 1..8 |-> At(src, srcIdx + j - 1)]

\* the last, short block copied into tmp and padded with zeros
packTmp(src, srcIdx, padding) ==
    [j \in 1..8 |-> IF j <= 8 - padding THEN At(src, srcIdx + j - 1) ELSE 0]

\* buffer[i] = 0 for i in size..buffer.length-1
packZeroTail(buffer, size) ==
    [k \in 1..Len(buffer) |-> IF k > size THEN 0 ELSE buffer[k]]

\* the for loop of sprotoPack; s is the record of its local variables
RECURSIVE sprotoPackLoop(_, _, _)
sprotoPackLoop(srcsz, i, s) ==
    IF i >= srcsz THEN s
    ELSE
    LET padding == i + 8 - srcsz
        src     == IF padding > 0 THEN packTmp(s.src, s.srcIdx, padding) ELSE s.src
        srcIdx  == IF padding > 0 THEN 0 ELSE s.srcIdx
        \* writeFf of n bytes, when bufsz >= 0 after the block took size
        Flush(buffer, size, n) ==
          IF s.bufsz - size >= 0
          THEN writeFf(s.ffSrcstart, s.ffSrcstartIdx, buffer, s.ffDesstartIdx, n)
          ELSE buffer
        Next(t, n) ==
          sprotoPackLoop(srcsz, i + 8,
              [t EXCEPT !.src = src, !.srcIdx = srcIdx + 8,
                        !.bufsz = s.bufsz - n,
                        !.bufferIdx = s.bufferIdx + n, !.size = s.size + n])
        Seg(r) ==
          Next(IF r.n = 10
               THEN [s EXCEPT !.ffSrcstart = src, !.ffSrcstartIdx = srcIdx,
                              !.ffDesstartIdx = s.bufferIdx, !.ffN = 1,
                              !.buffer = r.buffer]
               ELSE IF r.n = 8 /\ s.ffN > 0
               THEN IF s.ffN + 1 = 256
                    THEN [s EXCEPT !.buffer = Flush(r.buffer, r.n, 256 * 8),
                                   !.ffN = 0]
                    ELSE [s EXCEPT !.buffer = r.buffer, !.ffN = s.ffN + 1]
               ELSE IF s.ffN > 0
                    THEN [s EXCEPT !.buffer = Flush(r.buffer, r.n, s.ffN * 8),
                                   !.ffN = 0]
                    ELSE [s EXCEPT !.buffer = r.buffer],
               r.n)
    IN  Seg(packSeg(src, srcIdx, s.buffer, s.bufferIdx, s.bufsz, s.ffN))

\* sprotoPack: returns the size and the buffer it wrote
sprotoPack(srcv, srcIdx, bufferv, bufferIdx) ==
    LET srcsz == Len(srcv)
        Zeroed(w, size) == IF Len(w) > size THEN packZeroTail(w, size) ELSE w
        Then(s) ==
          [size |-> s.size,
           buffer |-> IF s.bufsz >= 0
                      THEN Zeroed(IF s.ffN = 1
                                  THEN writeFf(s.ffSrcstart, s.ffSrcstartIdx,
                                               s.buffer, s.ffDesstartIdx, 8)
                                  ELSE IF s.ffN > 1
                                  THEN writeFf(s.ffSrcstart, s.ffSrcstartIdx,
                                               s.buffer, s.ffDesstartIdx,
                                               srcsz - s.ffSrcstartIdx)
                                  ELSE s.buffer,
                                  s.size)
                      ELSE s.buffer]
    IN  Then(sprotoPackLoop(srcsz, 0,
                 [src |-> srcv, srcIdx |-> srcIdx, buffer |-> bufferv,
                  bufferIdx |-> bufferIdx, bufsz |-> BufSz,
                  ffSrcstart |-> <<>>, ffSrcstartIdx |-> 0,
                  ffDesstartIdx |-> 0, ffN |-> 0, size |-> 0]))

\* api.pack
pack(b) == sprotoPack(b, 0, <<>>, 0).buffer

\* the for loop of sprotoUnpack over the 8 bits of a header byte
RECURSIVE sprotoUnpackBits(_, _, _)
sprotoUnpackBits(header, i, s) ==
    IF i >= 8 \/ s.failed THEN s
    ELSE
    LET nz == (header \div Pow2(i)) % 2
    IN  IF nz # 0
        THEN IF s.srcsz < 0
             THEN [s EXCEPT !.failed = TRUE]
             ELSE sprotoUnpackBits(header, i + 1,
                      [s EXCEPT
                         !.buffer = IF s.bufsz > 0
                                    THEN SetAt(s.buffer, s.bufferIdx,
                                               At(s.src, s.srcIdx))
                                    ELSE s.buffer,
                         !.bufsz = IF s.bufsz > 0 THEN s.bufsz - 1 ELSE s.bufsz,
                         !.bufferIdx = IF s.bufsz > 0 THEN s.bufferIdx + 1
                                       ELSE s.bufferIdx,
                         !.srcIdx = s.srcIdx + 1,
                         !.srcsz = s.srcsz - 1,
                         !.size = s.size + 1])
        ELSE sprotoUnpackBits(header, i + 1,
                 [s EXCEPT
                    !.buffer = IF s.bufsz > 0
                               THEN SetAt(s.buffer, s.bufferIdx, 0)
                               ELSE s.buffer,
                    !.bufsz = IF s.bufsz > 0 THEN s.bufsz - 1 ELSE s.bufsz,
                    !.bufferIdx = IF s.bufsz > 0 THEN s.bufferIdx + 1
                                  ELSE s.bufferIdx,
                    !.size = s.size + 1])

\* buffer[bufferIdx + i] = src[srcIdx + i] for i in from..n-1
RECURSIVE unpackCopy(_, _, _, _, _, _)
unpackCopy(src, srcIdx, buffer, bufferIdx, i, n) ==
    IF i >= n THEN buffer
    ELSE unpackCopy(src, srcIdx,
                    SetAt(buffer, bufferIdx + i, At(src, srcIdx + i)),
                    bufferIdx, i + 1, n)

\* the while loop of sprotoUnpack; s is the record of its local variables
RECURSIVE sprotoUnpackLoop(_)
sprotoUnpackLoop(s) ==
    IF s.srcsz <= 0 \/ s.failed THEN s
    ELSE
    LET header == At(s.src, s.srcIdx)
        t == [s EXCEPT !.srcsz = s.srcsz - 1, !.srcIdx = s.srcIdx + 1]
    IN  IF header = 255
        THEN LET n == (At(t.src, t.srcIdx) + 1) * 8
             IN  IF t.srcsz < 0 \/ t.srcsz < n + 1
                 THEN [t EXCEPT !.failed = TRUE]
                 ELSE sprotoUnpackLoop(
                          [t EXCEPT
                             !.srcsz = t.srcsz - (n + 1),
                             !.buffer = IF t.bufsz >= n
                                        THEN unpackCopy(t.src, t.srcIdx + 1,
                                                 t.buffer, t.bufferIdx, 0, n)
                                        ELSE t.buffer,
                             !.bufsz = t.bufsz - n,
                             !.bufferIdx = t.bufferIdx + n,
                             !.srcIdx = t.srcIdx + 1 + n,
                             !.size = t.size + n])
        ELSE sprotoUnpackLoop(sprotoUnpackBits(header, 0, t))

\* sprotoUnpack: returns the size (-1 on failure) and the buffer it wrote
sprotoUnpack(srcv, srcIdx, bufferv, bufferIdx) ==
    LET s == sprotoUnpackLoop(
                 [src |-> srcv, srcIdx |-> srcIdx, buffer |-> bufferv,
                  bufferIdx |-> bufferIdx, srcsz |-> Len(srcv),
                  bufsz |-> BufSz, size |-> 0, failed |-> FALSE])
    IN  [size |-> IF s.failed THEN -1 ELSE s.size, buffer |-> s.buffer]

\* api.unpack
unpack(b) == sprotoUnpack(b, 0, <<>>, 0).buffer

(***************************************************************************)
(* JavaScript numbers.  An integer-valued number v with |v| < 2^47 is the  *)
(* record [hi, lo] with v = hi * 2^16 + lo and 0 <= lo < 2^16; in that     *)
(* range the double arithmetic of the source is exact.                     *)
(***************************************************************************)
\* the number of a small integer
Num(i) == [hi |-> i \div 65536, lo |-> i % 65536]

\* the small integer of a number (defined when it fits an integer of the model)
ToInt(v) == v.hi * 65536 + v.lo

NumLess(a, b) == a.hi < b.hi \/ (a.hi = b.hi /\ a.lo < b.lo)

\* utils.uint64Rshift: Math.floor(num / Math.pow(2, offset))
RECURSIVE uint64Rshift(_, _)
uint64Rshift(num, offset) ==
    IF offset >= 16
    THEN uint64Rshift([hi |-> num.hi \div 65536, lo |-> num.hi % 65536],
                      offset - 16)
    ELSE IF offset = 0 THEN num
    ELSE [hi |-> num.hi \div Pow2(offset),
          lo |-> (num.lo \div Pow2(offset))
                 + (num.hi % Pow2(offset)) * Pow2(16 - offset)]

\* v & 0xff
AndFF(v) == v.lo % 256

\* v >>> 0: the number modulo 2^32
ToUint32(v) == [hi |-> v.hi % 65536, lo |-> v.lo]

\* the signed 32-bit value the bit operators of JavaScript see
ToInt32(v) == [hi |-> ((v.hi + 32768) % 65536) - 32768, lo |-> v.lo]

\* (v >> k) & 0xff
ShrAndFF(v, k) == AndFF(uint64Rshift(ToInt32(v), k))

\* a byte as the bit operators read it: undefined counts as 0
Byte(x) == IF x = Undefined THEN 0 ELSE x % 256

\* utils.toWord
toWord(stream) == Byte(At(stream, 0)) + 256 * Byte(At(stream, 1))

\* utils.toDword: an unsigned 32-bit number
toDword(stream) ==
    [hi |-> Byte(At(stream, 2)) + 256 * Byte(At(stream, 3)),
     lo |-> Byte(At(stream, 0)) + 256 * Byte(At(stream, 1))]

\* utils.toDword where the source uses the result as a size
toSize(stream) == ToInt(toDword(stream))

\* utils.expand64
expand64(v) ==
    IF v.hi % 65536 >= 32768 THEN ToInt32(v) ELSE v

\* utils.hiLowUint64: (hi & 0xFFFFFFFF) * 0x100000000 + low
hiLowUint64(low, hi) ==
    [hi |-> ToInt(ToInt32(hi)) * 65536 + low.hi, lo |-> low.lo]

\* v * e for a small positive integer e
NumTimes(v, e) ==
    [hi |-> v.hi * e + ((v.lo * e) \div 65536), lo |-> (v.lo * e) % 65536]

\* v / e for a small positive integer e: a number when e divides v, and
\* otherwise the quotient with the remainder that makes it a fraction
NumOver(v, e) ==
    LET rest == (v.hi % e) * 65536 + v.lo
    IN  IF rest % e = 0
        THEN [hi |-> v.hi \div e, lo |-> rest \div e]
        ELSE [hi |-> v.hi \div e, lo |-> rest \div e, rem |-> rest % e,
              den |-> e]

(***************************************************************************)
(* Strings are sequences of UTF-16 code units.                             *)
(***************************************************************************)
\* the bytes string2utf8 pushes for one code unit
utf8OfCode(code) ==
    IF code <= 127 THEN <<code>>
    ELSE IF code <= 2047
    THEN <<192 + (code \div 64), 128 + (code % 64)>>
    ELSE IF (code >= 2048 /\ code <= 55295) \/ (code >= 57344 /\ code <= 65535)
    THEN <<224 + (code \div 4096), 128 + ((code \div 64) % 64), 128 + (code % 64)>>
    ELSE <<>>

\* utils.string2utf8
RECURSIVE string2utf8(_)
string2utf8(str) ==
    IF str = <<>> THEN <<>>
    ELSE utf8OfCode(Head(str)) \o string2utf8(Tail(str))

\* the while loop of utils.utf82string
RECURSIVE utf82stringLoop(_, _, _)
utf82stringLoop(arr, i, result) ==
    IF ~(i < Len(arr) /\ At(arr, i) # Undefined) THEN result
    ELSE
    LET byte1 == At(arr, i)
    IN  IF byte1 < 128
        THEN utf82stringLoop(arr, i + 1, Append(result, byte1))
        ELSE IF byte1 \div 32 = 6
        THEN IF i + 1 >= Len(arr) THEN result
             ELSE utf82stringLoop(arr, i + 2,
                      Append(result,
                             (byte1 % 32) * 64 + (Byte(At(arr, i + 1)) % 64)))
        ELSE IF byte1 \div 16 = 14
        THEN IF i + 2 >= Len(arr) THEN result
             ELSE utf82stringLoop(arr, i + 3,
                      Append(result,
                             (byte1 % 16) * 4096
                             + (Byte(At(arr, i + 1)) % 64) * 64
                             + (Byte(At(arr, i + 2)) % 64)))
        ELSE utf82stringLoop(arr, i + 1, result)

\* utils.utf82string
utf82string(arr) == utf82stringLoop(arr, 0, <<>>)

\* utils.arrayconcat
arrayconcat(a1, a2) == a1 \o a2

(***************************************************************************)
(* The catalogue: types, fields and protocols as createFromBundle leaves   *)
(* them.                                                                   *)
(***************************************************************************)
SPROTO_REQUEST == 0
SPROTO_RESPONSE == 1
SPROTO_TINTEGER == 0
SPROTO_TBOOLEAN == 1
SPROTO_TSTRING == 2
SPROTO_TDOUBLE == 3
SPROTO_TSTRUCT == 4
SPROTO_CB_ERROR == -1
SPROTO_CB_NIL == -2
SPROTO_CB_NOARRAY == -3
SPROTO_TARRAY == 128
SIZEOF_LENGTH == 4
SIZEOF_HEADER == 2
SIZEOF_FIELD == 2
ENCODE_DEEPLEVEL == 64

\* what JavaScript calls null where the source holds an object or null
Null == [null |-> TRUE]

\* f.st === null: st is otherwise an index into the type array
NoSt == -1

\* a field as importField leaves it
Field(name, tag, type, st, extra) ==
    [name |-> name, tag |-> tag, type |-> type, st |-> st, key |-> -1,
     extra |-> extra]

\* the maxn of a type counted without its tag gaps
importTypeMaxnOfFields(f, i, last, maxn) == Len(f)

\* maxn as the loop of importType counts it: n plus one per gap in the tags
RECURSIVE importTypeMaxn(_, _, _, _)
importTypeMaxn(f, i, last, maxn) ==
    IF i > Len(f) THEN maxn
    ELSE importTypeMaxn(f, i + 1, f[i].tag,
                        IF f[i].tag > last + 1 THEN maxn + 1 ELSE maxn)

\* a type as importType leaves it: fn = 1 (no field array) leaves f null,
\* n = 0, base = 0, maxn = 0
Type(name, f) ==
    IF f = <<>>
    THEN [name |-> name, n |-> 0, base |-> 0, maxn |-> 0, f |-> <<>>,
          fnull |-> TRUE]
    ELSE [name |-> name, n |-> Len(f),
          base |-> IF f[Len(f)].tag - f[1].tag + 1 # Len(f) THEN -1
                   ELSE f[1].tag,
          maxn |-> importTypeMaxn(f, 1, -1, Len(f)),
          f |-> f, fnull |-> FALSE]

\* a protocol as importProtocol leaves it: request and response are p.p[0]
\* and p.p[1], a type of the type array or null
Protocol(name, tag, request, response, confirm) ==
    [name |-> name, tag |-> tag, request |-> request, response |-> response,
     confirm |-> confirm]

\* the binary search of findTag over the sorted field array
RECURSIVE findTagSearch(_, _, _, _)
findTagSearch(st, tag, begin, end) ==
    IF ~(begin < end) THEN [k |-> "null"]
    ELSE
    LET mid == (begin + end) \div 2
        f   == st.f[mid + 1]
        t   == f.tag
    IN  IF t = tag THEN [k |-> "field", f |-> f]
        ELSE IF tag > t THEN findTagSearch(st, tag, mid + 1, end)
        ELSE findTagSearch(st, tag, begin, mid)

\* findTag: a field, null, undefined (an index past the field array) or a
\* TypeError (the field array is null)
findTag(st, tag) ==
    IF st.base >= 0
    THEN LET t == tag - st.base
         IN  IF t < 0 \/ t > st.n THEN [k |-> "null"]
             ELSE IF st.fnull THEN [k |-> "throw"]
             ELSE IF t < Len(st.f) THEN [k |-> "field", f |-> st.f[t + 1]]
             ELSE [k |-> "undefined"]
    ELSE findTagSearch(st, tag, 0, st.n)

(***************************************************************************)
(* Record encoder.  Every operator that writes takes the buffer and        *)
(* returns it with the size the source returns.                            *)
(***************************************************************************)
\* fillSize: the 4 bytes of sz at dataIdx; returns sz + SIZEOF_LENGTH
fillSize(data, dataIdx, sz) ==
    [sz |-> sz + SIZEOF_LENGTH,
     buffer |-> SetAt(SetAt(SetAt(SetAt(data,
                    dataIdx, sz % 256),
                    dataIdx + 1, (sz \div 256) % 256),
                    dataIdx + 2, (sz \div 65536) % 256),
                    dataIdx + 3, (sz \div 16777216) % 256)]

\* encodeInteger: the 4 bytes of v after a length of 4
encodeInteger(v, data, dataIdx) ==
    fillSize(SetAt(SetAt(SetAt(SetAt(data,
                 dataIdx + 4, AndFF(v)),
                 dataIdx + 5, ShrAndFF(v, 8)),
                 dataIdx + 6, ShrAndFF(v, 16)),
                 dataIdx + 7, ShrAndFF(v, 24)),
             dataIdx, 4)

\* data[dataIdx + 4 + k] = uint64Rshift(v, 8 * k) & 0xff for k in from..7
RECURSIVE writeUint64(_, _, _, _)
writeUint64(v, data, at, k) ==
    IF k >= 8 THEN data
    ELSE writeUint64(v, SetAt(data, at + k, AndFF(uint64Rshift(v, 8 * k))),
                     at, k + 1)

\* encodeUint64: the 8 bytes of v after a length of 8
encodeUint64(v, data, dataIdx) ==
    fillSize(writeUint64(v, data, dataIdx + 4, 0), dataIdx, 8)

\* buffer[at + i] = arr[i] for every i
RECURSIVE writeBytes(_, _, _, _)
writeBytes(buffer, at, arr, i) ==
    IF i >= Len(arr) THEN buffer
    ELSE writeBytes(SetAt(buffer, at + i, arr[i + 1]), at, arr, i + 1)

\* uint32ToUint64: the upper 4 bytes of an 8-byte element
uint32ToUint64(negative, buffer, bufferIdx) ==
    LET b == IF negative THEN 255 ELSE 0
    IN  SetAt(SetAt(SetAt(SetAt(buffer, bufferIdx + 4, b), bufferIdx + 5, b),
                    bufferIdx + 6, b), bufferIdx + 7, b)

\* buffer[headerIdx + j] = buffer[headerIdx + j - i * 4] for j in from..to-1
RECURSIVE promoteCopy(_, _, _, _, _)
promoteCopy(buffer, headerIdx, i, j, to) ==
    IF j >= to THEN buffer
    ELSE promoteCopy(SetAt(buffer, headerIdx + j,
                           At(buffer, headerIdx + j - i * 4)),
                     headerIdx, i, j + 1, to)

\* the 4 -> 8 promotion of encodeIntegerArray: element i moves from offset
\* 1 + 4i to offset 1 + 8i and is sign-extended, for i from index - 2 down
RECURSIVE promoteLoop(_, _, _)
promoteLoop(buffer, headerIdx, i) ==
    IF i < 0 THEN buffer
    ELSE
    LET b1 == promoteCopy(buffer, headerIdx, i, 1 + i * 8, 1 + i * 8 + 4)
        negative == Byte(At(b1, headerIdx + 1 + i * 8 + 3)) >= 128
    IN  promoteLoop(uint32ToUint64(negative, b1, headerIdx + 1 + i * 8),
                    headerIdx, i - 1)

\* typeof indata[tagname] !== "object": the value of an array field is a
\* JavaScript array in every input the scenarios draw
NotAnObject(v) == FALSE

RECURSIVE sprotoEncode(_, _, _, _, _)
RECURSIVE sprotoEncodeLoop(_, _, _, _, _, _, _)
RECURSIVE encode(_, _, _, _)
RECURSIVE encodeObject(_, _, _, _, _)
RECURSIVE encodeArray(_, _, _, _, _)
RECURSIVE encodeIntegerArrayLoop(_, _, _, _, _, _, _, _)
RECURSIVE encodeBooleanArrayLoop(_, _, _, _, _, _)
RECURSIVE encodeObjectArrayLoop(_, _, _, _, _, _)

\* the size an operator of the encoder hands up when the source does not
\* return but raises: alert("table is too deep") where no alert is defined
Raised == -4

\* the -1 a caller returns for a negative size; an exception passes through
Fail(sz) == IF sz = Raised THEN Raised ELSE -1

\* what a call of the callback encode leaves: the size it returns (or a
\* SPROTO_CB_ code), args.value and the buffer
Cb(sz, value, buffer) == [sz |-> sz, value |-> value, buffer |-> buffer]

\* the callback encode: args carries tagname, type, index, extra, subtype
\* and buffer_idx; self is the user data [indata, deep]
encode(sp, args, self, buffer) ==
    IF self.deep >= ENCODE_DEEPLEVEL
    THEN Cb(IF alertDefined THEN -1 ELSE Raised, Num(0), buffer)
    ELSE IF args.tagname \notin DOMAIN self.indata
    THEN Cb(SPROTO_CB_NIL, Num(0), buffer)
    ELSE IF args.index > 0 /\ NotAnObject(self.indata[args.tagname])
    THEN Cb(SPROTO_CB_NIL, Num(0), buffer)
    ELSE IF args.index > 0 /\ args.index - 1 >= Len(self.indata[args.tagname])
    THEN Cb(SPROTO_CB_NIL, Num(0), buffer)
    ELSE
    LET target == IF args.index > 0
                  THEN self.indata[args.tagname][args.index]
                  ELSE self.indata[args.tagname]
        Struct(r) == IF r.sz = Raised THEN Cb(Raised, Num(0), r.buffer)
                     ELSE IF r.sz < 0 THEN Cb(SPROTO_CB_ERROR, Num(0), r.buffer)
                     ELSE Cb(r.sz, Num(0), r.buffer)
    IN  CASE args.type = SPROTO_TINTEGER ->
             LET v  == IF args.extra > 0 THEN NumTimes(target, args.extra)
                       ELSE target
                 vh == uint64Rshift(v, 31)
             IN  IF vh = Num(0) \/ vh = Num(-1)
                 THEN Cb(4, ToUint32(v), buffer)
                 ELSE Cb(8, v, buffer)
          [] args.type = SPROTO_TBOOLEAN ->
             Cb(4, IF target = TRUE THEN Num(1) ELSE Num(0), buffer)
          [] args.type = SPROTO_TSTRING ->
             LET arr == IF args.extra # 0 THEN target ELSE string2utf8(target)
             IN  Cb(Len(arr), Num(0), writeBytes(buffer, args.buffer_idx, arr, 0))
          [] args.type = SPROTO_TSTRUCT ->
             Struct(sprotoEncode(sp, args.subtype, buffer, args.buffer_idx,
                                 [indata |-> target, deep |-> self.deep + 1]))
          [] OTHER -> Cb(SPROTO_CB_ERROR, Num(0), buffer)

\* encodeObject
encodeObject(sp, args, self, data, dataIdx) ==
    LET Then(r) ==
          IF r.sz < 0
          THEN [sz |-> IF r.sz = SPROTO_CB_NIL THEN 0 ELSE Fail(r.sz),
                buffer |-> r.buffer]
          ELSE fillSize(r.buffer, dataIdx, r.sz)
    IN  Then(encode(sp, [args EXCEPT !.buffer_idx = dataIdx + SIZEOF_LENGTH],
                    self, data))

\* the for (;;) loop of encodeIntegerArray; returns the final bufferIdx
\* (failed when the source returns null), noarray and the buffer
encodeIntegerArrayLoop(sp, args, self, buffer, headerIdx, bufferIdx, intlen, index) ==
    LET Then(r) ==
          IF r.sz <= 0
          THEN IF r.sz = SPROTO_CB_NIL \/ r.sz = SPROTO_CB_NOARRAY
               THEN [failed |-> FALSE,
                     noarray |-> IF r.sz = SPROTO_CB_NOARRAY THEN 1 ELSE 0,
                     bufferIdx |-> IF bufferIdx = headerIdx + 1 THEN headerIdx
                                   ELSE bufferIdx,
                     buffer |-> IF bufferIdx = headerIdx + 1 THEN buffer
                                ELSE SetAt(buffer, headerIdx, intlen % 256)]
               ELSE [failed |-> TRUE, raised |-> r.sz = Raised, noarray |-> 0,
                     bufferIdx |-> bufferIdx, buffer |-> buffer]
          ELSE IF r.sz = 4
          THEN LET v  == r.value
                   b1 == SetAt(SetAt(SetAt(SetAt(buffer,
                             bufferIdx, AndFF(v)),
                             bufferIdx + 1, ShrAndFF(v, 8)),
                             bufferIdx + 2, ShrAndFF(v, 16)),
                             bufferIdx + 3, ShrAndFF(v, 24))
               IN  encodeIntegerArrayLoop(sp, args, self,
                       IF intlen = 8
                       THEN uint32ToUint64(ToInt32(v).hi < 0, b1, bufferIdx)
                       ELSE b1,
                       headerIdx, bufferIdx + intlen, intlen, index + 1)
          ELSE IF r.sz # 8
          THEN [failed |-> TRUE, raised |-> FALSE, noarray |-> 0,
                bufferIdx |-> bufferIdx, buffer |-> buffer]
          ELSE LET at == IF intlen = 4 THEN bufferIdx + (index - 1) * 4
                         ELSE bufferIdx
               IN  encodeIntegerArrayLoop(sp, args, self,
                       writeUint64(r.value,
                                   IF intlen = 4
                                   THEN promoteLoop(buffer, headerIdx, index - 2)
                                   ELSE buffer,
                                   at, 0),
                       headerIdx, at + 8, 8, index + 1)
    IN  Then(encode(sp, [args EXCEPT !.index = index], self, buffer))

\* the BOOLEAN loop of encodeArray: code 1 is its break, 0 its return 0,
\* -1 its return -1
encodeBooleanArrayLoop(sp, args, self, buffer, bufferIdx, index) ==
    LET Then(r) ==
          IF r.sz < 0
          THEN [code |-> IF r.sz = SPROTO_CB_NIL THEN 1
                         ELSE IF r.sz = SPROTO_CB_NOARRAY THEN 0
                         ELSE Fail(r.sz),
                bufferIdx |-> bufferIdx, buffer |-> buffer]
          ELSE IF r.sz < 1
          THEN [code |-> -1, bufferIdx |-> bufferIdx, buffer |-> buffer]
          ELSE encodeBooleanArrayLoop(sp, args, self,
                   SetAt(buffer, bufferIdx, IF r.value = Num(1) THEN 1 ELSE 0),
                   bufferIdx + 1, index + 1)
    IN  Then(encode(sp, [args EXCEPT !.index = index], self, buffer))

\* the default (string, struct) loop of encodeArray
encodeObjectArrayLoop(sp, args, self, buffer, bufferIdx, index) ==
    LET Then(r) ==
          IF r.sz < 0
          THEN [code |-> IF r.sz = SPROTO_CB_NIL THEN 1
                         ELSE IF r.sz = SPROTO_CB_NOARRAY THEN 0
                         ELSE Fail(r.sz),
                bufferIdx |-> bufferIdx, buffer |-> r.buffer]
          ELSE encodeObjectArrayLoop(sp, args, self,
                   fillSize(r.buffer, bufferIdx, r.sz).buffer,
                   bufferIdx + SIZEOF_LENGTH + r.sz, index + 1)
    IN  Then(encode(sp, [args EXCEPT !.index = index,
                                     !.buffer_idx = bufferIdx + SIZEOF_LENGTH],
                    self, buffer))

\* encodeArray
encodeArray(sp, args, self, data, dataIdx) ==
    LET bufferIdx == dataIdx + SIZEOF_LENGTH
        Integers(r) ==
          IF r.failed
          THEN [sz |-> IF r.raised THEN Raised ELSE -1, buffer |-> r.buffer]
          ELSE IF r.noarray # 0 THEN [sz |-> 0, buffer |-> r.buffer]
          ELSE fillSize(r.buffer, dataIdx, r.bufferIdx - bufferIdx)
        Others(r) ==
          IF r.code # 1 THEN [sz |-> r.code, buffer |-> r.buffer]
          ELSE fillSize(r.buffer, dataIdx, r.bufferIdx - bufferIdx)
    IN  IF args.type = SPROTO_TINTEGER
        THEN Integers(encodeIntegerArrayLoop(sp, args, self, data, bufferIdx,
                                             bufferIdx + 1, 4, 1))
        ELSE IF args.type = SPROTO_TBOOLEAN
        THEN Others(encodeBooleanArrayLoop(sp, args, self, data, bufferIdx, 1))
        ELSE Others(encodeObjectArrayLoop(sp, args, self, data, bufferIdx, 1))

\* the args of a field f as sprotoEncode and sprotoDecode set them
FieldArgs(sp, f, type, bufferIdx) ==
    [tagname |-> f.name, tagid |-> f.tag, type |-> type, index |-> 0,
     subtype |-> IF f.st # NoSt THEN sp.type[f.st + 1] ELSE Null,
     mainindex |-> f.key, extra |-> f.extra, buffer_idx |-> bufferIdx]

\* the header entries of a present field: the tag-gap marker, if any, and
\* the value slot, written at entry `index`
writeRecord(buffer, headerIdx, index, gap, value) ==
    LET recordIdx == headerIdx + SIZEOF_HEADER + SIZEOF_FIELD * index
        marker    == (gap - 1) * 2 + 1
        b1 == IF gap > 0
              THEN SetAt(SetAt(buffer, recordIdx, marker % 256),
                         recordIdx + 1, (marker \div 256) % 256)
              ELSE buffer
        at == IF gap > 0 THEN recordIdx + SIZEOF_FIELD ELSE recordIdx
    IN  SetAt(SetAt(b1, at, value % 256), at + 1, (value \div 256) % 256)

\* a test that lets 0x7fff into the header slot as well
FitsInlineThrough(v) == NumLess(v, Num(32768))

\* args.value < 0x7fff: the integer goes into the header slot
FitsInline(v) == NumLess(v, Num(32767))

\* what the body of the for loop of sprotoEncode makes of a field: sz, the
\* header value and the buffer; skip is its `continue`, ret0 its `return 0`
Encoded(sz, value, buffer) ==
    [sz |-> sz, value |-> value, buffer |-> buffer, skip |-> FALSE,
     ret0 |-> FALSE]

\* the scalar case (integer, boolean) of the switch of sprotoEncode; r is
\* what the callback left.  No field of the schemas is a double, so a size
\* of 8 is always an integer's.
encodeScalar(r, dataIdx) ==
    IF r.sz < 0
    THEN [sz |-> Fail(r.sz), value |-> 0, buffer |-> r.buffer,
          skip |-> r.sz = SPROTO_CB_NIL, ret0 |-> r.sz = SPROTO_CB_NOARRAY]
    ELSE IF r.sz = 4
    THEN IF FitsInline(r.value)
         THEN Encoded(2, (ToInt(r.value) + 1) * 2, r.buffer)
         ELSE Encoded(SIZEOF_LENGTH + 4, 0,
                      encodeInteger(r.value, r.buffer, dataIdx).buffer)
    ELSE IF r.sz = 8
    THEN Encoded(SIZEOF_LENGTH + 8, 0,
                 encodeUint64(r.value, r.buffer, dataIdx).buffer)
    ELSE Encoded(-1, 0, r.buffer)

\* the for loop of sprotoEncode over the fields; s holds buffer, dataIdx,
\* index and lasttag.  ended tells that the loop ran to its end; ret is
\* otherwise the value the source returns from inside the loop.
sprotoEncodeLoop(sp, st, ud, headerIdx, bufferIdx, i, s) ==
    IF i >= st.n THEN [ended |-> TRUE, ret |-> 0, s |-> s]
    ELSE
    LET f    == st.f[i + 1]
        type == f.type
        isArray == type >= SPROTO_TARRAY
        args == FieldArgs(sp, f, IF isArray THEN type - SPROTO_TARRAY ELSE type,
                          bufferIdx)
        gap == f.tag - s.lasttag - 1
        InData(r) == Encoded(r.sz, 0, r.buffer)
        Then(e) ==
          IF e.skip
          THEN sprotoEncodeLoop(sp, st, ud, headerIdx, bufferIdx, i + 1, s)
          ELSE IF e.ret0
          THEN [ended |-> FALSE, ret |-> 0,
                s |-> [s EXCEPT !.buffer = e.buffer]]
          ELSE IF e.sz < 0
          THEN [ended |-> FALSE, ret |-> Fail(e.sz),
                s |-> [s EXCEPT !.buffer = e.buffer]]
          ELSE IF e.sz = 0
          THEN sprotoEncodeLoop(sp, st, ud, headerIdx, bufferIdx, i + 1,
                                [s EXCEPT !.buffer = e.buffer])
          ELSE IF gap > 0 /\ (gap - 1) * 2 + 1 > 65535
          THEN [ended |-> FALSE, ret |-> -1,
                s |-> [s EXCEPT !.buffer = e.buffer]]
          ELSE sprotoEncodeLoop(sp, st, ud, headerIdx, bufferIdx, i + 1,
                   [buffer  |-> writeRecord(e.buffer, headerIdx, s.index, gap,
                                            e.value),
                    dataIdx |-> IF e.value = 0 THEN s.dataIdx + e.sz
                                ELSE s.dataIdx,
                    index   |-> IF gap > 0 THEN s.index + 2 ELSE s.index + 1,
                    lasttag |-> f.tag])
    IN  Then(IF isArray
             THEN InData(encodeArray(sp, args, ud, s.buffer, s.dataIdx))
             ELSE IF type \in {SPROTO_TDOUBLE, SPROTO_TINTEGER, SPROTO_TBOOLEAN}
             THEN encodeScalar(encode(sp, args, ud, s.buffer), s.dataIdx)
             ELSE IF type \in {SPROTO_TSTRUCT, SPROTO_TSTRING}
             THEN InData(encodeObject(sp, args, ud, s.buffer, s.dataIdx))
             ELSE Encoded(-1, 0, s.buffer))

\* the end of sprotoEncode when index !== st.maxn: the data area is moved
\* down to the end of the written header and the buffer cut after it
compactRecord(buffer, headerIdx, headerSz, index, datasz) ==
    LET dataIdx == headerIdx + headerSz
        v  == Slice(buffer, dataIdx, dataIdx + datasz)
        to == headerIdx + SIZEOF_HEADER + index * SIZEOF_FIELD
        b1 == writeBytes(buffer, to, v, 0)
    IN  SubSeq(b1, 1, IF to + Len(v) < Len(b1) THEN to + Len(v) ELSE Len(b1))

\* sprotoEncode: the size of the record, or -1, and the buffer
sprotoEncode(sp, st, buffer, bufferIdx, ud) ==
    LET headerIdx == bufferIdx
        headerSz  == SIZEOF_HEADER + st.maxn * SIZEOF_FIELD
        Then(l) ==
          LET index  == l.s.index
              b1     == SetAt(SetAt(l.s.buffer, headerIdx, index % 256),
                              headerIdx + 1, (index \div 256) % 256)
              datasz == l.s.dataIdx - (headerIdx + headerSz)
          IN  IF ~l.ended THEN [sz |-> l.ret, buffer |-> l.s.buffer]
              ELSE [sz |-> SIZEOF_HEADER + index * SIZEOF_FIELD + datasz,
                    buffer |-> IF index # st.maxn
                               THEN compactRecord(b1, headerIdx, headerSz,
                                                  index, datasz)
                               ELSE b1]
    IN  Then(sprotoEncodeLoop(sp, st, ud, headerIdx, bufferIdx, 0,
                 [buffer |-> buffer, dataIdx |-> headerIdx + headerSz,
                  index |-> 0, lasttag |-> -1]))

\* sprotoEncode into a new buffer, as sp.encode calls it with the type
\* already resolved and user data of depth deep: the buffer, null when
\* sprotoEncode fails, or an exception (a TypeError when the type is null,
\* a ReferenceError when the callback called an alert that is not defined)
encodeAt(sp, st, indata, deep) ==
    LET Then(r) == IF r.sz = Raised THEN [k |-> "throw"]
                   ELSE IF r.sz < 0 THEN [k |-> "null"]
                   ELSE [k |-> "ok", buffer |-> r.buffer]
    IN  IF st = Null THEN [k |-> "throw"]
        ELSE Then(sprotoEncode(sp, st, <<>>, 0,
                               [indata |-> indata, deep |-> deep]))

\* sp.encode: the user data starts at deep 0
spEncode(sp, st, indata) == encodeAt(sp, st, indata, 0)

(***************************************************************************)
(* Record decoder.  The user data ud is [result, array_tag, deep], where   *)
(* array_tag is <<>> for null and <<name>> otherwise; an object is a       *)
(* function from the names of its present fields.  Every                   *)
(* operator returns the number the source returns as r, the user data, and *)
(* thrown = TRUE when the source raises an exception instead of returning. *)
(***************************************************************************)
\* obj[name] = v
SetField(obj, name, v) ==
    [k \in (DOMAIN obj) \cup {name} |-> IF k = name THEN v ELSE obj[k]]

\* the user data sp.decode, sp.objlen and the struct case start from
NewUd(deep) == [result |-> <<>>, array_tag |-> <<>>, deep |-> deep]

Ret(r, ud) == [r |-> r, ud |-> ud, thrown |-> FALSE]

Throw(ud) == [r |-> 0, ud |-> ud, thrown |-> TRUE]

\* the first `length` elements of a value array (arr.push(valueArray[i]))
FirstBytes(valueArray, length) ==
    [k \in 1..length |-> At(valueArray, k - 1)]

RECURSIVE sprotoDecode(_, _, _, _, _)
RECURSIVE sprotoDecodeLoop(_, _, _, _, _, _, _)
RECURSIVE decode(_, _, _, _, _)
RECURSIVE decodeArrayObject(_, _, _, _, _, _)
RECURSIVE decodeIntegerArrayLoop(_, _, _, _, _, _, _)
RECURSIVE decodeBooleanArrayLoop(_, _, _, _, _, _)

\* the callback decode: value and length are args.value and args.length
decode(sp, args, value, length, self) ==
    LET fresh == args.index # 0 /\ <<args.tagname>> # self.array_tag
        ud1   == IF fresh
                 THEN [self EXCEPT !.array_tag = <<args.tagname>>,
                                   !.result = SetField(self.result,
                                                       args.tagname, <<>>)]
                 ELSE self
        store(v) ==
            IF args.index > 0
            THEN [ud1 EXCEPT !.result =
                     SetField(ud1.result, args.tagname,
                              SetAt(ud1.result[args.tagname], args.index - 1, v))]
            ELSE [ud1 EXCEPT !.result = SetField(ud1.result, args.tagname, v)]
    IN  IF self.deep >= ENCODE_DEEPLEVEL /\ ~alertDefined THEN Throw(self)
        ELSE IF fresh /\ args.index < 0 THEN Ret(0, ud1)
        ELSE
        CASE args.type = SPROTO_TINTEGER ->
             Ret(0, store(IF args.extra # 0 THEN NumOver(value, args.extra)
                          ELSE value))
          [] args.type = SPROTO_TBOOLEAN ->
             Ret(0, store(IF value = Num(1) THEN TRUE
                          ELSE IF value = Num(0) THEN FALSE ELSE Null))
          [] args.type = SPROTO_TSTRING ->
             LET arr == FirstBytes(value, length)
             IN  Ret(0, store(IF args.extra # 0 THEN arr ELSE utf82string(arr)))
          [] args.type = SPROTO_TSTRUCT ->
             LET Then(d) ==
                   IF d.thrown THEN Throw(ud1)
                   ELSE IF args.mainindex >= 0
                   THEN IF d.r < 0 \/ d.r # length THEN Ret(d.r, ud1)
                        ELSE Ret(0, store(d.ud.result))
                   ELSE IF d.r < 0 THEN Ret(SPROTO_CB_ERROR, ud1)
                   ELSE IF d.r # length THEN Ret(d.r, ud1)
                   ELSE Ret(0, store(d.ud.result))
             IN  Then(sprotoDecode(sp, args.subtype, value, length,
                                   NewUd(self.deep + 1)))

\* decodeArrayObject: the elements of a string or struct array
decodeArrayObject(sp, args, stream, sz, index, ud) ==
    IF ~(sz > 0) THEN Ret(0, ud)
    ELSE IF sz < SIZEOF_LENGTH THEN Ret(-1, ud)
    ELSE
    LET hsz  == toSize(stream)
        rest == SliceFrom(stream, SIZEOF_LENGTH)
        Then(d) ==
          IF d.thrown THEN d
          ELSE IF d.r # 0 THEN Ret(-1, d.ud)
          ELSE decodeArrayObject(sp, args, SliceFrom(rest, hsz),
                                 sz - SIZEOF_LENGTH - hsz, index + 1, d.ud)
    IN  IF hsz > sz - SIZEOF_LENGTH THEN Ret(-1, ud)
        ELSE Then(decode(sp, [args EXCEPT !.index = index], rest, hsz, ud))

\* the loops of the integer case of decodeArray, for elements of len bytes
decodeIntegerArrayLoop(sp, args, stream, len, n, i, ud) ==
    IF i >= n THEN Ret(0, ud)
    ELSE
    LET low   == toDword(SliceFrom(stream, i * len))
        value == IF len = 4 THEN expand64(low)
                 ELSE hiLowUint64(low, toDword(SliceFrom(stream, i * 8 + 4)))
        Then(d) == IF d.thrown THEN d
                   ELSE decodeIntegerArrayLoop(sp, args, stream, len, n,
                                               i + 1, d.ud)
    IN  Then(decode(sp, [args EXCEPT !.index = i + 1], value, 8, ud))

\* the loop of the boolean case of decodeArray
decodeBooleanArrayLoop(sp, args, stream, sz, i, ud) ==
    IF i >= sz THEN Ret(0, ud)
    ELSE LET Then(d) == IF d.thrown THEN d
                        ELSE decodeBooleanArrayLoop(sp, args, stream, sz,
                                                    i + 1, d.ud)
         IN  Then(decode(sp, [args EXCEPT !.index = i + 1],
                         Num(At(stream, i)), 8, ud))

\* decodeArray without the call of the callback for an empty array
decodeArrayEmptyUnreported(sp, args, stream0, ud) ==
    LET sz     == toSize(stream0)
        stream == SliceFrom(stream0, SIZEOF_LENGTH)
    IN  IF sz = 0
        THEN Ret(0, ud)
        ELSE
        CASE args.type = SPROTO_TINTEGER ->
             LET len == At(stream, 0)
                 remainingSz == sz - 1
             IN  IF len # 4 /\ len # 8 THEN Ret(-1, ud)
                 ELSE IF remainingSz % len # 0 THEN Ret(-1, ud)
                 ELSE decodeIntegerArrayLoop(sp, args, SliceFrom(stream, 1),
                                             len, remainingSz \div len, 0, ud)
          [] args.type = SPROTO_TBOOLEAN ->
             decodeBooleanArrayLoop(sp, args, stream, sz, 0, ud)
          [] args.type \in {SPROTO_TSTRING, SPROTO_TSTRUCT} ->
             decodeArrayObject(sp, args, stream, sz, 1, ud)
          [] OTHER -> Ret(-1, ud)

\* decodeArray
decodeArray(sp, args, stream0, ud) ==
    LET sz     == toSize(stream0)
        stream == SliceFrom(stream0, SIZEOF_LENGTH)
    IN  IF sz = 0
        THEN LET Then(d) == IF d.thrown THEN d ELSE Ret(0, d.ud)
             IN  Then(decode(sp, [args EXCEPT !.index = -1], Null, 0, ud))
        ELSE
        CASE args.type = SPROTO_TINTEGER ->
             LET len == At(stream, 0)
                 remainingSz == sz - 1
             IN  IF len # 4 /\ len # 8 THEN Ret(-1, ud)
                 ELSE IF remainingSz % len # 0 THEN Ret(-1, ud)
                 ELSE decodeIntegerArrayLoop(sp, args, SliceFrom(stream, 1),
                                             len, remainingSz \div len, 0, ud)
          [] args.type = SPROTO_TBOOLEAN ->
             decodeBooleanArrayLoop(sp, args, stream, sz, 0, ud)
          [] args.type \in {SPROTO_TSTRING, SPROTO_TSTRUCT} ->
             decodeArrayObject(sp, args, stream, sz, 1, ud)
          [] OTHER -> Ret(-1, ud)

\* a field with data in the data area (value < 0 in sprotoDecode)
decodeData(sp, f, args, currentdata, ud) ==
    LET sz == toSize(currentdata)
        Then(d) == IF d.thrown THEN d
                   ELSE IF d.r # 0 THEN Ret(-1, d.ud) ELSE Ret(0, d.ud)
    IN  IF f.type >= SPROTO_TARRAY
        THEN Then(decodeArray(sp, args, currentdata, ud))
        ELSE
        CASE f.type = SPROTO_TINTEGER ->
             IF sz = 4
             THEN decode(sp, args,
                         expand64(toDword(SliceFrom(currentdata, SIZEOF_LENGTH))),
                         8, ud)
             ELSE IF sz = 8
             THEN decode(sp, args,
                         hiLowUint64(
                             toDword(SliceFrom(currentdata, SIZEOF_LENGTH)),
                             toDword(SliceFrom(currentdata, SIZEOF_LENGTH + 4))),
                         8, ud)
             ELSE Ret(-1, ud)
          [] f.type \in {SPROTO_TSTRING, SPROTO_TSTRUCT} ->
             Then(decode(sp, args, SliceFrom(currentdata, SIZEOF_LENGTH),
                         sz, ud))
          [] OTHER -> Ret(-1, ud)

\* the for loop of sprotoDecode over the fn header entries; s holds
\* datastream, size, tag and ud.  r = 0 stands for the loop running to its
\* end, r = -1 for a return -1 from inside it.
sprotoDecodeLoop(sp, st, stream, fn, i, s, total) ==
    IF i >= fn THEN Ret(total - s.size, s.ud)
    ELSE
    LET word == toWord(SliceFrom(stream, i * SIZEOF_FIELD))
        tag  == s.tag + 1
    IN  IF word % 2 # 0
        THEN sprotoDecodeLoop(sp, st, stream, fn, i + 1,
                              [s EXCEPT !.tag = tag + (word \div 2)], total)
        ELSE
        LET value       == (word \div 2) - 1
            currentdata == s.datastream
            sz          == toSize(s.datastream)
        IN  IF value < 0 /\ s.size < SIZEOF_LENGTH THEN Ret(-1, s.ud)
            ELSE IF value < 0 /\ s.size < sz + SIZEOF_LENGTH THEN Ret(-1, s.ud)
            ELSE
            LET s1 == IF value < 0
                      THEN [s EXCEPT
                              !.datastream = SliceFrom(s.datastream,
                                                       sz + SIZEOF_LENGTH),
                              !.size = s.size - (sz + SIZEOF_LENGTH),
                              !.tag = tag]
                      ELSE [s EXCEPT !.tag = tag]
                ft == IF st = Null THEN [k |-> "throw"] ELSE findTag(st, tag)
            IN  IF ft.k = "null"
                THEN sprotoDecodeLoop(sp, st, stream, fn, i + 1, s1, total)
                ELSE IF ft.k # "field" THEN Throw(s.ud)
                ELSE
                LET f    == ft.f
                    args == FieldArgs(sp, f, f.type % SPROTO_TARRAY, 0)
                    Then(d) ==
                      IF d.thrown THEN d
                      ELSE IF d.r < 0 THEN Ret(-1, d.ud)
                      ELSE sprotoDecodeLoop(sp, st, stream, fn, i + 1,
                                            [s1 EXCEPT !.ud = d.ud], total)
                IN  Then(IF value < 0
                         THEN decodeData(sp, f, args, currentdata, s.ud)
                         ELSE IF f.type # SPROTO_TINTEGER
                                 /\ f.type # SPROTO_TBOOLEAN
                         THEN Ret(-1, s.ud)
                         ELSE decode(sp, args, Num(value), 8, s.ud))

\* sprotoDecode: the number of bytes of the record, or -1
sprotoDecode(sp, st, data, size, ud) ==
    IF size < SIZEOF_HEADER THEN Ret(-1, ud)
    ELSE
    LET fn     == toWord(data)
        stream == SliceFrom(data, SIZEOF_HEADER)
        size1  == size - SIZEOF_HEADER
    IN  IF size1 < fn * SIZEOF_FIELD THEN Ret(-1, ud)
        ELSE sprotoDecodeLoop(sp, st, stream, fn, 0,
                 [datastream |-> SliceFrom(stream, fn * SIZEOF_FIELD),
                  size |-> size1 - fn * SIZEOF_FIELD, tag |-> -1, ud |-> ud],
                 size)

\* sprotoDecode of a whole buffer, as sp.decode calls it with the type
\* already resolved and user data of depth deep: the object, null when
\* sprotoDecode fails, or an exception (a TypeError, or a ReferenceError
\* when the callback called an alert that is not defined)
decodeAt(sp, st, buf, deep) ==
    LET Then(d) == IF d.thrown THEN [k |-> "throw"]
                   ELSE IF d.r < 0 THEN [k |-> "null"]
                   ELSE [k |-> "ok", result |-> d.ud.result]
    IN  Then(sprotoDecode(sp, st, buf, Len(buf), NewUd(deep)))

\* sp.decode: the user data starts at deep 0
spDecode(sp, st, buf) == decodeAt(sp, st, buf, 0)

\* sp.objlen answering the length of the buffer it was given
objlenOfBuffer(sp, st, buf) == Ret(Len(buf), NewUd(0))

\* sp.objlen with the type already resolved
objlen(sp, st, buf) ==
    sprotoDecode(sp, st, buf, Len(buf), NewUd(0))

(***************************************************************************)
(* Catalogue queries.  A catalogue sp is [type, proto]: the type array and *)
(* the protocol array, sorted by tag as the binary search assumes.  The    *)
(* caches tcache and pcache only memoise these pure lookups.               *)
(***************************************************************************)
\* sprotoType: the first type of that name, or null
sprotoType(sp, typeName) ==
    IF \E i \in 1..Len(sp.type) : sp.type[i].name = typeName
    THEN sp.type[CHOOSE i \in 1..Len(sp.type) :
                    /\ sp.type[i].name = typeName
                    /\ \A j \in 1..(i - 1) : sp.type[j].name # typeName]
    ELSE Null

\* queryType
queryType(sp, typename) == sprotoType(sp, typename)

\* sprotoProtoTag: the tag of the first protocol of that name, or -1
sprotoProtoTag(sp, name) ==
    IF \E i \in 1..Len(sp.proto) : sp.proto[i].name = name
    THEN sp.proto[CHOOSE i \in 1..Len(sp.proto) :
                     /\ sp.proto[i].name = name
                     /\ \A j \in 1..(i - 1) : sp.proto[j].name # name].tag
    ELSE -1

\* the binary search of queryProto: the index of the protocol, or -1
RECURSIVE queryProtoSearch(_, _, _, _)
queryProtoSearch(sp, tag, begin, end) ==
    IF ~(begin < end) THEN -1
    ELSE LET mid == (begin + end) \div 2
             t   == sp.proto[mid + 1].tag
         IN  IF t = tag THEN mid
             ELSE IF tag > t THEN queryProtoSearch(sp, tag, mid + 1, end)
             ELSE queryProtoSearch(sp, tag, begin, mid)

\* queryProto: the protocol of that tag, or null
queryProto(sp, tag) ==
    LET i == queryProtoSearch(sp, tag, 0, Len(sp.proto))
    IN  IF i < 0 THEN Null ELSE sp.proto[i + 1]

\* p.p[what]
ProtoType(p, what) ==
    IF what = SPROTO_REQUEST THEN p.request ELSE p.response

\* sprotoProtoQuery
sprotoProtoQuery(sp, proto, what) ==
    IF what < 0 \/ what > 1 THEN Null
    ELSE IF queryProto(sp, proto) = Null THEN Null
    ELSE ProtoType(queryProto(sp, proto), what)

\* sprotoProtoResponse
sprotoProtoResponse(sp, proto) ==
    /\ queryProto(sp, proto) # Null
    /\ \/ queryProto(sp, proto).response # Null
       \/ queryProto(sp, proto).confirm # 0

\* sprotoProtoName
sprotoProtoName(sp, proto) ==
    IF queryProto(sp, proto) = Null THEN Null ELSE queryProto(sp, proto).name

\* the object protocol() returns for a tag and a name
ProtocolInfo(sp, tag, name) ==
    [tag |-> tag, name |-> name,
     request  |-> sprotoProtoQuery(sp, tag, SPROTO_REQUEST),
     response |-> sprotoProtoQuery(sp, tag, SPROTO_RESPONSE)]

\* protocol(sp, pname) for a string pname
protocolOfName(sp, pname) ==
    IF sprotoProtoTag(sp, pname) = -1 THEN Null
    ELSE ProtocolInfo(sp, sprotoProtoTag(sp, pname), pname)

\* protocol(sp, pname) for a number pname
protocolOfTag(sp, pname) ==
    IF queryProto(sp, pname) = Null THEN Null
    ELSE ProtocolInfo(sp, pname, sprotoProtoName(sp, pname))

(***************************************************************************)
(* The RPC host.  An optional value (an argument that may be undefined, a  *)
(* key an object may lack) is <<>> when absent and <<v>> when present.     *)
(* The session table is a function from the session ids it holds to        *)
(* entries: the response type, or the value true.                          *)
(***************************************************************************)
\* the entries of a session table
EntryTrue == [k |-> "true"]

EntryType(st) == [k |-> "type", st |-> st]

\* the outcome of a call that throws
Thrown(error) == [k |-> "throw", error |-> error]

\* a number is truthy when it is not 0
Truthy(opt) == opt # <<>> /\ opt[1] # Num(0)

\* the envelope object headerTemp with its null or undefined members left out
Envelope(type, session) ==
    [k \in (IF type = <<>> THEN {} ELSE {"type"})
           \cup (IF session = <<>> THEN {} ELSE {"session"}) |->
        IF k = "type" THEN type[1] ELSE session[1]]

\* the closure host.attach returns, called as (name, args, session) on a
\* host whose package type is package and whose table is table: the new
\* table and the bytes returned, or the error thrown
attachSend(sp, package, table, name, args, session) ==
    LET Found(proto) ==
          LET table1 == IF Truthy(session)
                        THEN SetField(table, ToInt(session[1]),
                                      IF proto.response # Null
                                      THEN EntryType(proto.response)
                                      ELSE EntryTrue)
                        ELSE table
              Out(headerbuffer, databuffer) ==
                IF headerbuffer.k # "ok" \/ databuffer.k # "ok"
                THEN [table |-> table1, out |-> Thrown("TypeError")]
                ELSE [table |-> table1,
                      out |-> [k |-> "ok",
                               buffer |-> pack(IF args # <<>>
                                               THEN arrayconcat(headerbuffer.buffer,
                                                                databuffer.buffer)
                                               ELSE headerbuffer.buffer)]]
          IN  IF proto = Null
              THEN [table |-> table, out |-> Thrown("TypeError")]
              ELSE Out(spEncode(sp, package,
                                Envelope(<<Num(proto.tag)>>, session)),
                       IF args # <<>> THEN spEncode(sp, proto.request, args[1])
                       ELSE [k |-> "ok"])
    IN  Found(protocolOfName(sp, name))

\* the closure genResponse returns, called as (args)
genResponse(sp, package, response, session, args) ==
    LET Out(headerbuffer, databuffer) ==
          IF headerbuffer.k # "ok" \/ databuffer.k # "ok"
          THEN Thrown("TypeError")
          ELSE [k |-> "ok",
                buffer |-> pack(IF response # Null
                                THEN arrayconcat(headerbuffer.buffer,
                                                 databuffer.buffer)
                                ELSE headerbuffer.buffer)]
    IN  Out(spEncode(sp, package, Envelope(<<>>, <<session>>)),
            IF response # Null
            THEN spEncode(sp, response, IF args = <<>> THEN <<>> ELSE args[1])
            ELSE [k |-> "ok"])

\* sp.decode(...) || undefined of host.dispatch: an optional object
DecodeOrUndefined(d) == IF d.k = "ok" THEN <<d.result>> ELSE <<>>

\* bin.slice(usedSz || 0, bin.length)
leftbufferOf(bin, usedSz) ==
    IF usedSz >= 0 THEN SliceFrom(bin, usedSz)
    ELSE SliceFrom(bin, IF Len(bin) + usedSz > 0 THEN Len(bin) + usedSz ELSE 0)

\* a member of the decoded envelope, optional
Member(obj, name) == IF name \in DOMAIN obj THEN <<obj[name]>> ELSE <<>>

\* the request branch of host.dispatch
dispatchRequest(sp, table, headerData, leftbuffer) ==
    LET Result(proto, d) ==
          IF d.k = "throw"
          THEN [table |-> table, out |-> Thrown("TypeError")]
          ELSE IF Truthy(Member(headerData, "session"))
          THEN [table |-> table,
                out |-> [k |-> "ok", type |-> "REQUEST",
                         pname |-> <<proto.name>>,
                         result |-> DecodeOrUndefined(d),
                         responseFunc |-> <<[response |-> proto.response,
                                             session |-> headerData["session"]]>>,
                         session |-> <<headerData["session"]>>]]
          ELSE [table |-> table,
                out |-> [k |-> "ok", type |-> "REQUEST",
                         pname |-> <<proto.name>>,
                         result |-> DecodeOrUndefined(d),
                         responseFunc |-> <<>>, session |-> <<>>]]
        Found(proto) ==
          IF proto = Null
          THEN [table |-> table, out |-> Thrown("Protocol not found")]
          ELSE Result(proto, IF proto.request # Null
                             THEN spDecode(sp, proto.request, leftbuffer)
                             ELSE [k |-> "null"])
    IN  Found(protocolOfTag(sp, ToInt(headerData["type"])))

\* the response branch of host.dispatch had it matched a response to the
\* oldest outstanding session instead of the session of its envelope
dispatchResponseByArrival(sp, attached, table, headerData, leftbuffer) ==
    LET session  == Member(headerData, "session")
        key      == IF DOMAIN table = {} THEN Undefined
                    ELSE CHOOSE k \in DOMAIN table : \A j \in DOMAIN table : k <= j
        response == IF key \in DOMAIN table THEN table[key]
                    ELSE [k |-> "undefined"]
        table1   == [s \in (DOMAIN table) \ {key} |-> table[s]]
        Result(d) ==
          IF d.k = "throw"
          THEN [table |-> table1, out |-> Thrown("TypeError")]
          ELSE [table |-> table1,
                out |-> [k |-> "ok", type |-> "RESPONSE", pname |-> <<>>,
                         result |-> DecodeOrUndefined(d),
                         responseFunc |-> <<>>, session |-> session]]
    IN  IF response.k = "true"
        THEN [table |-> table1,
              out |-> [k |-> "ok", type |-> "RESPONSE", pname |-> <<>>,
                       result |-> <<>>, responseFunc |-> <<>>,
                       session |-> session]]
        ELSE Result(IF attached
                    THEN spDecode(sp, IF response.k = "type" THEN response.st
                                      ELSE Null, leftbuffer)
                    ELSE [k |-> "null"])

\* the response branch of host.dispatch; attached tells whether attach has
\* set this.attachsp
dispatchResponse(sp, attached, table, headerData, leftbuffer) ==
    LET session  == Member(headerData, "session")
        key      == IF session = <<>> THEN Undefined ELSE ToInt(session[1])
        response == IF key \in DOMAIN table THEN table[key]
                    ELSE [k |-> "undefined"]
        table1   == [s \in (DOMAIN table) \ {key} |-> table[s]]
        Result(d) ==
          IF d.k = "throw"
          THEN [table |-> table1, out |-> Thrown("TypeError")]
          ELSE [table |-> table1,
                out |-> [k |-> "ok", type |-> "RESPONSE", pname |-> <<>>,
                         result |-> DecodeOrUndefined(d),
                         responseFunc |-> <<>>, session |-> session]]
    IN  IF response.k = "true"
        THEN [table |-> table1,
              out |-> [k |-> "ok", type |-> "RESPONSE", pname |-> <<>>,
                       result |-> <<>>, responseFunc |-> <<>>,
                       session |-> session]]
        ELSE Result(IF attached
                    THEN spDecode(sp, IF response.k = "type" THEN response.st
                                      ELSE Null, leftbuffer)
                    ELSE [k |-> "null"])

\* host.dispatch: the new session table and the result, or the error thrown
dispatch(sp, package, attached, table, buffer) ==
    LET Branch(h, leftbuffer) ==
          IF h.k = "throw" THEN [table |-> table, out |-> Thrown("TypeError")]
          ELSE IF h.k = "ok" /\ Truthy(Member(h.result, "type"))
          THEN dispatchRequest(sp, table, h.result, leftbuffer)
          ELSE dispatchResponse(sp, attached, table,
                                IF h.k = "ok" THEN h.result ELSE <<>>,
                                leftbuffer)
        Unpacked(bin) ==
          Branch(spDecode(sp, package, bin),
                 leftbufferOf(bin, objlen(sp, package, bin).r))
    IN  Unpacked(unpack(buffer))

(***************************************************************************)
(* The schema the scenarios load.                                          *)
(*   package { type 0 : integer  session 1 : integer }                     *)
(*   Scalars { id 0 : integer  ok 1 : boolean  name 3 : string             *)
(*             blob 4 : binary }                                           *)
(*   Arrays  { ints 0 : *integer  flags 1 : *boolean  names 2 : *string }  *)
(*   Inner   { v 0 : integer }                                             *)
(*   Outer   { one 0 : Inner  list 1 : *Inner }                            *)
(*   Old     { a 0 : integer }                                             *)
(*   New1    { a 0 : integer  b 1 : integer }                              *)
(*   New2    { a 0 : integer  c 2 : integer }                              *)
(*   New3    { a 0 : integer  s 1 : string }                               *)
(*   Req     { x 0 : integer }                                             *)
(*   Resp    { ok 0 : boolean }                                            *)
(*   Node    { next 0 : Node }                                             *)
(*   New4    { a 0 : integer  b 1 : integer  s 2 : string }                *)
(*   zero 0 { request Req  response Resp }                                 *)
(*   call 1 { request Req  response Resp }                                 *)
(*   notify 2 { request Req }                                              *)
(*   confirm 3 { request Req  response nil }                               *)
(*   pull 4 { response Resp }                                              *)
(*   fetch 5 { request Req  response Old }                                 *)
(* New1, New2 and New3 are Old of a later schema, with one field added,    *)
(* and New4 with two.                                                      *)
(* The catalogue of an older peer lacks the protocols zero, confirm, pull  *)
(* and fetch.                                                              *)
(***************************************************************************)
SchemaTypes ==
    << Type("package", << Field("type", 0, SPROTO_TINTEGER, NoSt, 0),
                          Field("session", 1, SPROTO_TINTEGER, NoSt, 0) >>),
       Type("Scalars", << Field("id", 0, SPROTO_TINTEGER, NoSt, 0),
                          Field("ok", 1, SPROTO_TBOOLEAN, NoSt, 0),
                          Field("name", 3, SPROTO_TSTRING, NoSt, 0),
                          Field("blob", 4, SPROTO_TSTRING, NoSt, 1) >>),
       Type("Arrays", << Field("ints", 0, SPROTO_TARRAY + SPROTO_TINTEGER, NoSt, 0),
                         Field("flags", 1, SPROTO_TARRAY + SPROTO_TBOOLEAN, NoSt, 0),
                         Field("names", 2, SPROTO_TARRAY + SPROTO_TSTRING, NoSt, 0) >>),
       Type("Inner", << Field("v", 0, SPROTO_TINTEGER, NoSt, 0) >>),
       Type("Outer", << Field("one", 0, SPROTO_TSTRUCT, 3, 0),
                        Field("list", 1, SPROTO_TARRAY + SPROTO_TSTRUCT, 3, 0) >>),
       Type("Old", << Field("a", 0, SPROTO_TINTEGER, NoSt, 0) >>),
       Type("New1", << Field("a", 0, SPROTO_TINTEGER, NoSt, 0),
                       Field("b", 1, SPROTO_TINTEGER, NoSt, 0) >>),
       Type("New2", << Field("a", 0, SPROTO_TINTEGER, NoSt, 0),
                       Field("c", 2, SPROTO_TINTEGER, NoSt, 0) >>),
       Type("New3", << Field("a", 0, SPROTO_TINTEGER, NoSt, 0),
                       Field("s", 1, SPROTO_TSTRING, NoSt, 0) >>),
       Type("Req", << Field("x", 0, SPROTO_TINTEGER, NoSt, 0) >>),
       Type("Resp", << Field("ok", 0, SPROTO_TBOOLEAN, NoSt, 0) >>),
       Type("Node", << Field("next", 0, SPROTO_TSTRUCT, 11, 0) >>),
       Type("New4", << Field("a", 0, SPROTO_TINTEGER, NoSt, 0),
                       Field("b", 1, SPROTO_TINTEGER, NoSt, 0),
                       Field("s", 2, SPROTO_TSTRING, NoSt, 0) >>),
       Type("Gaps", << Field("p", 2, SPROTO_TINTEGER, NoSt, 0),
                       Field("q", 5, SPROTO_TSTRING, NoSt, 0),
                       Field("r", 6, SPROTO_TBOOLEAN, NoSt, 0) >>) >>

TypeNamed(name) ==
    SchemaTypes[CHOOSE i \in 1..Len(SchemaTypes) : SchemaTypes[i].name = name]

SchemaProtocols ==
    << Protocol("zero", 0, TypeNamed("Req"), TypeNamed("Resp"), 0),
       Protocol("call", 1, TypeNamed("Req"), TypeNamed("Resp"), 0),
       Protocol("notify", 2, TypeNamed("Req"), Null, 0),
       Protocol("confirm", 3, TypeNamed("Req"), Null, 1),
       Protocol("pull", 4, Null, TypeNamed("Resp"), 0),
       Protocol("fetch", 5, TypeNamed("Req"), TypeNamed("Old"), 0) >>

\* the catalogue createNew builds from the schema
Sp == [type |-> SchemaTypes, proto |-> SchemaProtocols]

\* the catalogue of the older peer
SpOld == [type |-> SchemaTypes, proto |-> SubSeq(SchemaProtocols, 2, 3)]

(***************************************************************************)
(* Values of the scenarios.                                                *)
(***************************************************************************)
\* an optional value drawn from S
Opt(S) == { <<>> } \cup { <<v>> : v \in S }

\* the arrays of at most n elements of S
Arrays(S, n) == UNION { [1..k -> S] : k \in 0..n }

\* the object of a record of optional members
Obj(r) == [k \in { m \in DOMAIN r : r[m] # <<>> } |-> r[k][1]]

\* integers around the limits of the inline, 4-byte and 8-byte encodings
IntValues ==
    { Num(0), Num(5), Num(32766), Num(32767), Num(-1),
      [hi |-> 32767, lo |-> 65535], [hi |-> -32768, lo |-> 0],
      [hi |-> 32768, lo |-> 0], [hi |-> 65536, lo |-> 5],
      [hi |-> -65537, lo |-> 65535], [hi |-> -32769, lo |-> 65535],
      [hi |-> 1073741824, lo |-> 1], [hi |-> -1073741825, lo |-> 65535] }

\* strings of 1-, 2- and 3-byte characters and of a surrogate pair
StrValues == { <<>>, <<65>>, <<233>>, <<8364>>, <<65, 55357, 56832>> }

BinValues == { <<>>, <<0, 255>> }

InnerValues == { Obj([v |-> <<>>]), Obj([v |-> <<Num(5)>>]) }

\* the values of a type of the schema
ValuesOf(type) ==
    CASE type = "Scalars" ->
         { Obj(r) : r \in [id : Opt(IntValues), ok : Opt(BOOLEAN),
                           name : Opt(StrValues), blob : Opt(BinValues)] }
      [] type = "Arrays" ->
         { Obj(r) : r \in [ints : Opt(Arrays({Num(1), Num(-1),
                                              [hi |-> 65536, lo |-> 0]}, MaxArr)),
                           flags : Opt(Arrays(BOOLEAN, MaxArr)),
                           names : Opt(Arrays({<<>>, <<65>>}, MaxArr))] }
      [] type = "Outer" ->
         { Obj(r) : r \in [one : Opt(InnerValues),
                           list : Opt(Arrays(InnerValues, MaxArr))] }
      [] type = "New1" ->
         { Obj(r) : r \in [a : Opt({Num(1)}),
                           b : Opt({Num(2), [hi |-> 32768, lo |-> 0]})] }
      [] type = "New2" ->
         { Obj(r) : r \in [a : Opt({Num(1)}),
                           c : Opt({Num(2), [hi |-> 32768, lo |-> 0]})] }
      [] type = "New3" ->
         { Obj(r) : r \in [a : Opt({Num(1)}), s : Opt({<<65>>})] }
      [] type = "New4" ->
         { Obj(r) : r \in [a : Opt({Num(1), [hi |-> 32768, lo |-> 0]}),
                           b : Opt({Num(2)}), s : Opt({<<65>>})] }
      [] type = "Gaps" ->
         { Obj(r) : r \in [p : Opt({Num(1), [hi |-> 32768, lo |-> 0]}),
                           q : Opt({<<65>>}), r : Opt({TRUE})] }

CodecTypes ==
    { "Scalars", "Arrays", "Outer", "New1", "New2", "New3", "Gaps" }

\* the types a record written as `type` is read as: the type itself and,
\* for the types of the later schema, the type they extend
Readers(type) ==
    IF type \in { "New1", "New2", "New3", "New4" } THEN { type, "Old" }
    ELSE { type }

\* obj without the members a reader of type Old does not declare
OldPart(obj) == [k \in (DOMAIN obj) \cap { "a" } |-> obj[k]]

ReqValues == { [x |-> Num(5)] }

RespValues == { [ok |-> TRUE] }

ProtocolNames == { "zero", "call", "notify", "confirm", "pull", "nope" }

SessionArgs == Opt({ Num(n) : n \in 0..MaxSession })

\* hosts A and B load the schema, host C is the older peer
Hosts == { "A", "B", "C" }

\* the hosts that call the closure attach returned
Clients == { "A" }

SpOf(h) == IF h = "C" THEN SpOld ELSE Sp

\* this.package of a host created by sp.host()
PackageOf(h) == queryType(SpOf(h), "package")

(***************************************************************************)
(* What the variables of a scenario hold while another scenario runs.      *)
(***************************************************************************)
NoResult == [k |-> "none"]

NoMsg ==
    [kind |-> "none", from |-> "", origin |-> "", name |-> "", args |-> <<>>,
     session |-> <<>>, bytes |-> <<>>]

NoCall ==
    [op |-> "none", host |-> "", msg |-> NoMsg, out |-> NoResult,
     before |-> <<>>]

PackIdle == inbuf = <<>> /\ packed = <<>> /\ unpacked = <<>>

CodecIdle ==
    /\ wrtype = ""
    /\ srcval = <<>>
    /\ encoded = NoResult
    /\ rdtype = ""
    /\ decoded = NoResult
    /\ damage = "none"
    /\ level = 0

RpcIdle ==
    /\ hostSession = [h \in Hosts |-> <<>>]
    /\ attachsp = [h \in Hosts |-> FALSE]
    /\ wire = {}
    /\ funcs = {}
    /\ lastCall = NoCall
    /\ pending = [h \in Hosts |-> {}]
    /\ sent = 0

LoadIdle == schema = <<>> /\ bundle = <<>> /\ loaded = NoResult

\* the scenarios whose records never nest 64 deep run where alert is defined
EnvIdle == alertDefined = TRUE

(***************************************************************************)
(* Pack scenario: a byte array is packed, then the result is unpacked.     *)
(***************************************************************************)
\* the non-zero positions of the blocks the inputs are made of
SegPatterns ==
    { {}, {0}, {7}, {0, 1, 2, 3, 4}, {0, 1, 2, 3, 4, 5}, {1, 2, 3, 5, 6, 7},
      {0, 1, 2, 3, 4, 5, 6}, {0, 1, 2, 3, 4, 5, 6, 7} }

\* the 8-byte block with the non-zero positions nz
SegBytes(nz) ==
    [j \in 1..8 |-> IF (j - 1) \in nz THEN (IF j = 1 THEN 255 ELSE j) ELSE 0]

RECURSIVE Blocks(_)
Blocks(k) ==
    IF k = 0 THEN { <<>> }
    ELSE { b \o SegBytes(p) : b \in Blocks(k - 1), p \in SegPatterns }

\* the inputs: up to MaxSegs blocks, the last one cut short by 0..7 bytes
PackInputs ==
    { SubSeq(b, 1, Len(b) - cut) :
        b \in UNION { Blocks(k) : k \in 0..MaxSegs },
        cut \in 0..7 }

InitPack ==
    /\ pc = "input"
    /\ inbuf \in PackInputs
    /\ packed = <<>>
    /\ unpacked = <<>>
    /\ CodecIdle
    /\ RpcIdle
    /\ LoadIdle
    /\ EnvIdle

Pack ==
    /\ pc = "input"
    /\ packed' = pack(inbuf)
    /\ pc' = "packed"
    /\ UNCHANGED <<inbuf, unpacked, codecVars, rpcVars, loadVars, alertDefined>>

Unpack ==
    /\ pc = "packed"
    /\ unpacked' = unpack(packed)
    /\ pc' = "unpacked"
    /\ UNCHANGED <<inbuf, packed, codecVars, rpcVars, loadVars, alertDefined>>

NextPack == Pack \/ Unpack

SpecPack == InitPack /\ [][NextPack]_vars

\* C2: pack idempotence, unpack(pack(b)) == b with exact byte equality,
\* stated on the inputs whose length is a multiple of 8 (where the zero
\* padding of a short last block plays no part)
C2_PackRoundTrip ==
    (pc = "unpacked" /\ Len(inbuf) % 8 = 0) => unpacked = inbuf

(***************************************************************************)
(* Codec scenario: a value of a type is encoded, then the bytes are        *)
(* decoded as the same type or as the type of the earlier schema.          *)
(***************************************************************************)
InitCodec ==
    /\ pc = "value"
    /\ wrtype \in CodecTypes
    /\ srcval \in ValuesOf(wrtype)
    /\ encoded = NoResult
    /\ rdtype = ""
    /\ decoded = NoResult
    /\ damage = "none"
    /\ level = 0
    /\ PackIdle
    /\ RpcIdle
    /\ LoadIdle
    /\ EnvIdle

Encode ==
    /\ pc = "value"
    /\ encoded' = spEncode(Sp, queryType(Sp, wrtype), srcval)
    /\ pc' = "encoded"
    /\ UNCHANGED <<wrtype, srcval, rdtype, decoded, damage, level, packVars, rpcVars, loadVars, alertDefined>>

Decode ==
    /\ pc = "encoded"
    /\ encoded.k = "ok"
    /\ \E t \in Readers(wrtype) :
          /\ rdtype' = t
          /\ decoded' = spDecode(Sp, queryType(Sp, t), encoded.buffer)
    /\ pc' = "decoded"
    /\ UNCHANGED <<wrtype, srcval, encoded, damage, level, packVars, rpcVars, loadVars, alertDefined>>

NextCodec == Encode \/ Decode

SpecCodec == InitCodec /\ [][NextCodec]_vars

\* C1: record round trip: sp.encode of a value of a type succeeds, and
\* sp.decode of the bytes as the same type yields the value, the absent
\* fields absent
C1_RecordRoundTrip ==
    /\ pc = "encoded" => encoded.k = "ok"
    /\ (pc = "decoded" /\ rdtype = wrtype) =>
           (decoded.k = "ok" /\ decoded.result = srcval)

\* C6: skip-unknown forward compatibility: the bytes of a value of a type
\* that extends Old by one field of a higher tag decode as Old without null
\* or exception, to the fields of the value that Old declares
C6_SkipUnknown ==
    (pc = "decoded" /\ rdtype = "Old" /\ wrtype # "Old") =>
        (decoded.k = "ok" /\ decoded.result = OldPart(srcval))

(***************************************************************************)
(* Rpc scenario: hosts attach, send requests, dispatch the messages in     *)
(* flight (any host may receive any message) and call the responseFunc     *)
(* closures dispatch handed out.  A closure is called at most once.        *)
(***************************************************************************)
\* the rpc scenario and the order scenario run the same operations
RpcPc == pc \in { "rpc", "order" }

\* the number of messages a run builds
MsgLimit == IF pc = "order" THEN 2 * MaxOutstanding ELSE MaxMsgs

InitRpc ==
    /\ pc = "rpc"
    /\ RpcIdle
    /\ PackIdle
    /\ CodecIdle
    /\ LoadIdle
    /\ EnvIdle

\* host.attach(sp) on host h
Attach(h) ==
    /\ RpcPc
    /\ ~attachsp[h]
    /\ attachsp' = [attachsp EXCEPT ![h] = TRUE]
    /\ lastCall' = [NoCall EXCEPT !.op = "attach", !.host = h,
                              !.before = hostSession[h]]
    /\ UNCHANGED <<pc, hostSession, wire, funcs, pending, sent, packVars, codecVars, loadVars, alertDefined>>

\* the closure attach returned, called on host h
Send(h, name, args, sess) ==
    /\ RpcPc
    /\ attachsp[h]
    /\ sent < MsgLimit
    /\ LET Msg(out) ==
             [kind |-> "req", from |-> h, origin |-> h, name |-> name,
              args |-> args, session |-> sess,
              bytes |-> IF out.k = "ok" THEN out.buffer ELSE <<>>]
           Step(r) ==
             /\ hostSession' = [hostSession EXCEPT ![h] = r.table]
             /\ wire' = IF r.out.k = "ok" THEN wire \cup {Msg(r.out)} ELSE wire
             /\ pending' = IF r.out.k = "ok" /\ Truthy(sess)
                           THEN [pending EXCEPT ![h] = @ \cup {ToInt(sess[1])}]
                           ELSE pending
             /\ lastCall' = [op |-> "send", host |-> h, msg |-> Msg(r.out),
                             out |-> r.out, before |-> hostSession[h]]
       IN  Step(attachSend(SpOf(h), PackageOf(h), hostSession[h], name, args,
                           sess))
    /\ sent' = sent + 1
    /\ UNCHANGED <<pc, attachsp, funcs, packVars, codecVars, loadVars, alertDefined>>

\* host.dispatch(m.bytes) on host h
Dispatch(h, m) ==
    /\ RpcPc
    /\ m \in wire
    /\ LET Step(r) ==
             /\ hostSession' = [hostSession EXCEPT ![h] = r.table]
             /\ funcs' = IF r.out.k = "ok" /\ r.out.responseFunc # <<>>
                         THEN funcs \cup
                              { [host |-> h, msg |-> m,
                                 response |-> r.out.responseFunc[1].response,
                                 session |-> r.out.responseFunc[1].session] }
                         ELSE funcs
             /\ lastCall' = [op |-> "dispatch", host |-> h, msg |-> m,
                             out |-> r.out, before |-> hostSession[h]]
       IN  Step(dispatch(SpOf(h), PackageOf(h), attachsp[h], hostSession[h],
                         m.bytes))
    /\ wire' = wire \ {m}
    /\ pending' = IF m.kind = "resp"
                  THEN [pending EXCEPT ![h] = @ \ {ToInt(m.session[1])}]
                  ELSE pending
    /\ UNCHANGED <<pc, attachsp, sent, packVars, codecVars, loadVars, alertDefined>>

\* the responseFunc f called with args
Respond(f, args) ==
    /\ RpcPc
    /\ f \in funcs
    /\ sent < MsgLimit
    /\ LET Msg(out) ==
             [kind |-> "resp", from |-> f.host, origin |-> f.msg.from,
              name |-> f.msg.name, args |-> args, session |-> <<f.session>>,
              bytes |-> IF out.k = "ok" THEN out.buffer ELSE <<>>]
           Step(out) ==
             /\ wire' = IF out.k = "ok" THEN wire \cup {Msg(out)} ELSE wire
             /\ lastCall' = [op |-> "respond", host |-> f.host,
                             msg |-> Msg(out), out |-> out,
                             before |-> hostSession[f.host]]
       IN  Step(genResponse(SpOf(f.host), PackageOf(f.host), f.response,
                            f.session, args))
    /\ funcs' = funcs \ {f}
    /\ sent' = sent + 1
    /\ UNCHANGED <<pc, hostSession, attachsp, pending, packVars, codecVars, loadVars, alertDefined>>

NextRpc ==
    \/ \E h \in Hosts : Attach(h)
    \/ \E h \in Clients, name \in ProtocolNames, args \in Opt(ReqValues),
          sess \in SessionArgs : Send(h, name, args, sess)
    \/ \E h \in Hosts, m \in wire : Dispatch(h, m)
    \/ \E f \in funcs, args \in Opt(RespValues) : Respond(f, args)

SpecRpc == InitRpc /\ [][NextRpc]_vars

\* the catalogues of the sender and of the receiver of a call are the same
SameSchema(c) == SpOf(c.host) = SpOf(c.msg.from)

\* the protocol a request message names, in the catalogue of its sender
ProtoOfMsg(m) == queryProto(SpOf(m.from), sprotoProtoTag(SpOf(m.from), m.name))

\* the latest call is a dispatch of a request message
DispatchedRequest == lastCall.op = "dispatch" /\ lastCall.msg.kind = "req"

\* the latest call is a dispatch of a message a responseFunc built
DispatchedResponse == lastCall.op = "dispatch" /\ lastCall.msg.kind = "resp"

\* C3: session symmetry: a request sent with args and a session, dispatched
\* at a peer of the same schema, is a REQUEST of that protocol, those args
\* and that session; the output of the responseFunc the peer called with
\* response args, dispatched at the sender, is a RESPONSE of that session
\* and those args, and the session is no longer in the sender's table
C3_SessionSymmetry ==
    /\ (/\ DispatchedRequest
        /\ lastCall.host # lastCall.msg.from
        /\ SameSchema(lastCall)
        /\ lastCall.msg.args # <<>>
        /\ Truthy(lastCall.msg.session)) =>
           /\ lastCall.out.k = "ok"
           /\ lastCall.out.type = "REQUEST"
           /\ lastCall.out.pname = <<lastCall.msg.name>>
           /\ lastCall.out.result = lastCall.msg.args
           /\ lastCall.out.session = lastCall.msg.session
    /\ (/\ DispatchedResponse
        /\ lastCall.host = lastCall.msg.origin
        /\ lastCall.msg.from # lastCall.msg.origin
        /\ SameSchema(lastCall)
        /\ lastCall.msg.args # <<>>
        /\ ProtoOfMsg([lastCall.msg EXCEPT !.from = lastCall.msg.origin]).response
             # Null) =>
           /\ lastCall.out.k = "ok"
           /\ lastCall.out.type = "RESPONSE"
           /\ lastCall.out.session = lastCall.msg.session
           /\ lastCall.out.result = lastCall.msg.args
           /\ ToInt(lastCall.msg.session[1]) \notin DOMAIN hostSession[lastCall.host]

\* C4: session-table invariant: the table of a host holds a session id iff
\* the host has sent a request carrying it whose response it has not yet
\* dispatched
C4_SessionTable ==
    pc = "rpc" => \A h \in Hosts : DOMAIN hostSession[h] = pending[h]

\* C5: a request sent without a session adds no entry to the sender's table,
\* and dispatched at a host of the same schema (the sender included) it is a
\* REQUEST of that protocol and those args, with no session and no
\* responseFunc
C5_NoSession ==
    /\ (/\ lastCall.op = "send"
        /\ lastCall.out.k = "ok"
        /\ lastCall.msg.session = <<>>) =>
           hostSession[lastCall.host] = lastCall.before
    /\ (/\ DispatchedRequest
        /\ SameSchema(lastCall)
        /\ lastCall.msg.args # <<>>
        /\ lastCall.msg.session = <<>>) =>
           /\ lastCall.out.k = "ok"
           /\ lastCall.out.type = "REQUEST"
           /\ lastCall.out.pname = <<lastCall.msg.name>>
           /\ lastCall.out.result = lastCall.msg.args
           /\ lastCall.out.session = <<>>
           /\ lastCall.out.responseFunc = <<>>

\* C7: a send with a non-zero session stores the response type when the
\* protocol has one, the value true when it has none but confirm is set, and
\* nothing when it has neither; a send with session 0 or without session
\* stores nothing
C7_SendStores ==
    (lastCall.op = "send" /\ lastCall.out.k = "ok") =>
        LET p     == ProtoOfMsg(lastCall.msg)
            s     == lastCall.msg.session
            table == hostSession[lastCall.host]
        IN  IF ~Truthy(s) THEN table = lastCall.before
            ELSE IF p.response # Null
            THEN /\ ToInt(s[1]) \in DOMAIN table
                 /\ table[ToInt(s[1])] = EntryType(p.response)
            ELSE IF p.confirm # 0
            THEN /\ ToInt(s[1]) \in DOMAIN table
                 /\ table[ToInt(s[1])] = EntryTrue
            ELSE table = lastCall.before

\* C8: dispatch returns a REQUEST exactly when the envelope of the message
\* has a type field (the message is a request, of whatever tag) and a
\* RESPONSE exactly when it has none
C8_RequestIffType ==
    (lastCall.op = "dispatch" /\ lastCall.out.k = "ok") =>
        /\ lastCall.out.type = "REQUEST" <=> lastCall.msg.kind = "req"
        /\ lastCall.out.type = "RESPONSE" <=> lastCall.msg.kind = "resp"

\* C9: the dispatch of a response envelope whose session the table of the
\* host does not hold throws an error and returns no RESPONSE
C9_UnknownSession ==
    (/\ DispatchedResponse
     /\ ToInt(lastCall.msg.session[1]) \notin DOMAIN lastCall.before) =>
        lastCall.out.k = "throw"

\* C10: the dispatch of a request envelope whose type is the tag of no
\* protocol of the catalogue of the host throws an error and returns no
\* result
C10_UnknownProtocol ==
    (/\ DispatchedRequest
     /\ queryProto(SpOf(lastCall.host),
                   sprotoProtoTag(SpOf(lastCall.msg.from), lastCall.msg.name))
            = Null) =>
        lastCall.out.k = "throw"

(***************************************************************************)
(* Order scenario: host A sends requests under distinct sessions, host B   *)
(* dispatches them and calls their responseFunc closures, and host A       *)
(* dispatches the responses, in whatever order the messages are delivered. *)
(***************************************************************************)
\* the protocols of the order scenario: their response types differ
OrderNames == { "call", "fetch" }

\* the response args host B answers a request of a protocol with
OrderResponse(name) == IF name = "fetch" THEN [a |-> Num(7)] ELSE [ok |-> TRUE]

InitOrder ==
    /\ pc = "order"
    /\ RpcIdle
    /\ PackIdle
    /\ CodecIdle
    /\ LoadIdle
    /\ EnvIdle

NextOrder ==
    \/ Attach("A")
    \/ \E name \in OrderNames, sess \in 1..MaxOutstanding :
          /\ sess \notin pending["A"]
          /\ Send("A", name, <<[x |-> Num(5)]>>, <<Num(sess)>>)
    \/ \E m \in wire : Dispatch(IF m.kind = "req" THEN "B" ELSE "A", m)
    \/ \E f \in funcs : Respond(f, <<OrderResponse(f.msg.name)>>)

SpecOrder == InitOrder /\ [][NextOrder]_vars

\* C11: with several sessions outstanding at a host, a response dispatched
\* in any order is decoded against the response type recorded for its own
\* session id (the result is the args the peer answered with) and removes
\* only the entry of that session, every other entry of the table unchanged
C11_ResponseBySession ==
    (pc = "order" /\ DispatchedResponse) =>
        LET s      == ToInt(lastCall.msg.session[1])
            before == lastCall.before
        IN  /\ s \in DOMAIN before
            /\ before[s] = EntryType(ProtoOfMsg(lastCall.msg).response)
            /\ lastCall.out.k = "ok"
            /\ lastCall.out.type = "RESPONSE"
            /\ lastCall.out.session = lastCall.msg.session
            /\ lastCall.out.result = lastCall.msg.args
            /\ hostSession[lastCall.host] =
                   [k \in (DOMAIN before) \ {s} |-> before[k]]

\* a response of the later session is dispatched while an earlier session of
\* another response type is still outstanding
C11_Witness ==
    /\ pc = "order"
    /\ DispatchedResponse
    /\ lastCall.out.k = "ok"
    /\ \E s \in DOMAIN lastCall.before :
          /\ s < ToInt(lastCall.msg.session[1])
          /\ lastCall.before[s] # lastCall.before[ToInt(lastCall.msg.session[1])]
          /\ s \in DOMAIN hostSession[lastCall.host]

(***************************************************************************)
(* Deep scenario.  The callbacks recurse through sprotoEncode and          *)
(* sprotoDecode with user data whose deep is one more than their own.  The *)
(* scenario runs one such call: a record of type Node that lies `level`    *)
(* records deep in the value being encoded, or in the payload being        *)
(* decoded, is encoded or decoded with user data of that depth (level 0 is *)
(* the call sp.encode or sp.decode makes).  It runs where alert is defined *)
(* (it shows its message and returns) and where it is not (the call raises *)
(* a ReferenceError).                                                      *)
(***************************************************************************)
\* the value of n nested records of type Node
RECURSIVE Nested(_)
Nested(n) == IF n <= 1 THEN <<>> ELSE [next |-> Nested(n - 1)]

\* the bytes of n nested records of type Node: a header of one entry, the
\* slot 0 of a field in the data area, a length and the inner record
RECURSIVE NestedBytes(_)
NestedBytes(n) ==
    LET Wrap(inner) ==
          <<1, 0, 0, 0>> \o fillSize(<<>>, 0, Len(inner)).buffer \o inner
    IN  IF n <= 1 THEN <<0, 0>> ELSE Wrap(NestedBytes(n - 1))

\* the number of records a value of type Node nests
RECURSIVE Depth(_)
Depth(v) == IF "next" \in DOMAIN v THEN 1 + Depth(v["next"]) ELSE 1

\* a record lies `level` deep only if the callbacks above it went on: the
\* callback encode never recurses from depth 64, and the callback decode
\* does only where alert returns
InitDeep ==
    /\ wrtype = "Node"
    /\ alertDefined \in BOOLEAN
    /\ level \in 0..MaxLevel
    /\ \E n \in 1..MaxNest :
          /\ srcval = Nested(n)
          /\ \/ /\ pc = "nested value"
                /\ level <= ENCODE_DEEPLEVEL
                /\ encoded = NoResult
             \/ /\ pc = "nested payload"
                /\ level <= ENCODE_DEEPLEVEL \/ alertDefined
                /\ encoded = [k |-> "ok", buffer |-> NestedBytes(n)]
    /\ rdtype = ""
    /\ decoded = NoResult
    /\ damage = "none"
    /\ PackIdle
    /\ RpcIdle
    /\ LoadIdle

\* sprotoEncode(st, buffer, 0, encode, {indata: srcval, deep: level})
EncodeNested ==
    /\ pc = "nested value"
    /\ encoded' = encodeAt(Sp, queryType(Sp, wrtype), srcval, level)
    /\ pc' = "nested encoded"
    /\ UNCHANGED <<wrtype, srcval, rdtype, decoded, damage, level, packVars, rpcVars, loadVars, alertDefined>>

\* sprotoDecode(st, bytes, size, decode, {deep: level, ...})
DecodeNested ==
    /\ pc = "nested payload"
    /\ rdtype' = wrtype
    /\ decoded' = decodeAt(Sp, queryType(Sp, wrtype), encoded.buffer, level)
    /\ pc' = "nested decoded"
    /\ UNCHANGED <<wrtype, srcval, encoded, damage, level, packVars, rpcVars, loadVars, alertDefined>>

NextDeep == EncodeNested \/ DecodeNested

SpecDeep == InitDeep /\ [][NextDeep]_vars

\* the record and the records it nests reach more than 64 levels below the
\* top record
TooDeep == level + Depth(srcval) - 1 > ENCODE_DEEPLEVEL

\* C12: recursion is bounded to depth 64 in both directions: the encoding
\* of a value whose structs nest deeper than 64 levels and the decoding of a
\* payload whose records nest deeper than 64 levels each abort with an error
\* and produce no result
C12_DepthBound ==
    /\ (pc = "nested encoded" /\ TooDeep) => encoded.k # "ok"
    /\ (pc = "nested decoded" /\ TooDeep) => decoded.k # "ok"

(***************************************************************************)
(* Damage scenario: a value is encoded, the bytes are damaged in one of    *)
(* the ways sprotoDecode and decodeArray validate, and the damaged bytes   *)
(* are decoded as the type or as the type of the earlier schema.           *)
(***************************************************************************)
DamageTypes == { "Scalars", "Arrays", "Outer", "New4" }

\* the entries of the data area of a record, found by the walk of the
\* header sprotoDecode makes: the tag, the offset of the length prefix and
\* the length it holds
RECURSIVE DataEntries(_, _, _, _, _)
DataEntries(buf, fn, i, tag, at) ==
    IF i >= fn THEN <<>>
    ELSE
    LET word == toWord(SliceFrom(buf, SIZEOF_HEADER + i * SIZEOF_FIELD))
    IN  IF word % 2 # 0
        THEN DataEntries(buf, fn, i + 1, tag + 1 + (word \div 2), at)
        ELSE IF word = 0
        THEN LET sz == toSize(SliceFrom(buf, at))
             IN  << [tag |-> tag + 1, at |-> at, sz |-> sz] >>
                 \o DataEntries(buf, fn, i + 1, tag + 1,
                                at + SIZEOF_LENGTH + sz)
        ELSE DataEntries(buf, fn, i + 1, tag + 1, at)

EntriesOf(buf) ==
    DataEntries(buf, toWord(buf), 0, -1,
                SIZEOF_HEADER + toWord(buf) * SIZEOF_FIELD)

\* the type of the field of a tag, as the writer's type declares it
TypeOfTag(st, tag) ==
    LET f == CHOOSE f \in { st.f[k] : k \in 1..Len(st.f) } : f.tag = tag
    IN  f.type

\* buf with the entry e replaced by a length prefix and the bytes body
Rebuilt(buf, e, body) ==
    LET head == Slice(buf, 0, e.at)
        tail == SliceFrom(buf, e.at + SIZEOF_LENGTH + e.sz)
        pre  == fillSize(<<0, 0, 0, 0>>, 0, Len(body)).buffer
    IN  head \o pre \o body \o tail

\* the bytes of the entry e after its length prefix
BodyOf(buf, e) == Slice(buf, e.at + SIZEOF_LENGTH, e.at + SIZEOF_LENGTH + e.sz)

DamageKinds == { "count", "overrun", "length", "width", "odd", "element" }

\* the lengths of an integer body other than 4 and 8, and the width bytes
\* other than 4 and 8, the scenario tries
BadLengths == { 0, 1, 3, 5, 7, 9 }

BadWidths == { 0, 1, 2, 16 }

\* the buffers a damage of a kind makes of the bytes of a record of type st
Damaged(st, buf, kind) ==
    LET es == EntriesOf(buf)
        E  == { es[k] : k \in 1..Len(es) }
    IN  CASE kind = "count" ->
             \* the header count is the least the bytes cannot hold
             { SetAt(SetAt(buf, 0, ((Len(buf) - SIZEOF_HEADER) \div SIZEOF_FIELD + 1) % 256),
                     1, ((Len(buf) - SIZEOF_HEADER) \div SIZEOF_FIELD + 1) \div 256) }
          [] kind = "overrun" ->
             \* a length prefix is one more than what is left behind it
             { fillSize(buf, e.at, Len(buf) - e.at - SIZEOF_LENGTH + 1).buffer :
                 e \in E }
          [] kind = "length" ->
             { Rebuilt(buf, e, [k \in 1..n |-> 1]) :
                 e \in { x \in E : TypeOfTag(st, x.tag) = SPROTO_TINTEGER },
                 n \in BadLengths }
          [] kind = "width" ->
             { SetAt(buf, e.at + SIZEOF_LENGTH, w) :
                 e \in { x \in E : /\ TypeOfTag(st, x.tag)
                                        = SPROTO_TARRAY + SPROTO_TINTEGER
                                    /\ x.sz > 0 },
                 w \in BadWidths }
          [] kind = "odd" ->
             { Rebuilt(buf, e, BodyOf(buf, e) \o <<0>>) :
                 e \in { x \in E : /\ TypeOfTag(st, x.tag)
                                        = SPROTO_TARRAY + SPROTO_TINTEGER
                                    /\ x.sz > 0 } }
          [] kind = "element" ->
             \* the length prefix of the first element of a string or struct
             \* array is one more than what is left of the array
             { fillSize(buf, e.at + SIZEOF_LENGTH, e.sz - SIZEOF_LENGTH + 1).buffer :
                 e \in { x \in E : /\ TypeOfTag(st, x.tag) \in
                                        { SPROTO_TARRAY + SPROTO_TSTRING,
                                          SPROTO_TARRAY + SPROTO_TSTRUCT }
                                    /\ x.sz > 0 } }

InitDamage ==
    /\ pc = "value"
    /\ wrtype \in DamageTypes
    /\ srcval \in ValuesOf(wrtype)
    /\ encoded = NoResult
    /\ rdtype = ""
    /\ decoded = NoResult
    /\ damage = "none"
    /\ level = 0
    /\ PackIdle
    /\ RpcIdle
    /\ LoadIdle
    /\ EnvIdle

\* the bytes sp.encode returned are damaged on their way to the reader
Damage ==
    /\ pc = "encoded"
    /\ encoded.k = "ok"
    /\ \E kind \in DamageKinds :
          \E b \in Damaged(queryType(Sp, wrtype), encoded.buffer, kind) :
             /\ damage' = kind
             /\ encoded' = [encoded EXCEPT !.buffer = b]
    /\ pc' = "payload"
    /\ UNCHANGED <<wrtype, srcval, rdtype, decoded, level, packVars, rpcVars, loadVars, alertDefined>>

\* sp.decode of the damaged bytes
Receive ==
    /\ pc = "payload"
    /\ \E t \in Readers(wrtype) :
          /\ rdtype' = t
          /\ decoded' = spDecode(Sp, queryType(Sp, t), encoded.buffer)
    /\ pc' = "received"
    /\ UNCHANGED <<wrtype, srcval, encoded, damage, level, packVars, rpcVars, loadVars, alertDefined>>

NextDamage == Encode \/ Damage \/ Receive

SpecDamage == InitDamage /\ [][NextDamage]_vars

\* C13: sp.decode returns null for every input of which the header claims
\* more entries than the buffer holds, a length prefix of the data area
\* exceeds the remaining bytes, an integer body is not 4 or 8 bytes long, or
\* an integer array has a width byte other than 4 and 8 or an element area
\* that is not a multiple of the width
C13_MalformedIsNull ==
    pc = "received" => decoded.k = "null"

\* the same for the inputs read as the type that wrote them
C13_SameType ==
    (pc = "received" /\ rdtype = wrtype) => decoded.k = "null"

(***************************************************************************)
(* Schema loader: api.createNew parses a bundle, the schema compiled into  *)
(* a record of the meta-schema (an array of types, an array of protocols). *)
(* An operator that parses returns k = "ok" with what it parsed and the    *)
(* stream behind it, k = "null", or k = "throw" for a TypeError.           *)
(***************************************************************************)
\* Math.pow(base, exp)
RECURSIVE calcPow(_, _)
calcPow(base, exp) == IF exp <= 0 THEN 1 ELSE base * calcPow(base, exp - 1)

\* countArray: the number of length-prefixed elements, or -1
RECURSIVE countArrayLoop(_, _, _)
countArrayLoop(currentStream, remainingLength, n) ==
    IF ~(remainingLength > 0) THEN n
    ELSE IF remainingLength < SIZEOF_LENGTH THEN -1
    ELSE LET nsz == toSize(currentStream) + SIZEOF_LENGTH
         IN  IF nsz > remainingLength THEN -1
             ELSE countArrayLoop(SliceFrom(currentStream, nsz),
                                 remainingLength - nsz, n + 1)

countArray(stream) ==
    countArrayLoop(SliceFrom(stream, SIZEOF_LENGTH), toSize(stream), 0)

\* structField: the number of header entries of a record, or -1.  The loop
\* reads entry i at field.slice(i * SIZEOF_FIELD + SIZEOF_HEADER), field
\* being the stream behind the count already.
RECURSIVE structFieldLoop(_, _, _, _, _)
structFieldLoop(field, fn, i, currentStream, remainingSz) ==
    IF i >= fn THEN fn
    ELSE
    LET value == toWord(SliceFrom(field, i * SIZEOF_FIELD + SIZEOF_HEADER))
        dsz   == toSize(currentStream)
    IN  IF value # 0
        THEN structFieldLoop(field, fn, i + 1, currentStream, remainingSz)
        ELSE IF remainingSz < SIZEOF_LENGTH THEN -1
        ELSE IF remainingSz < SIZEOF_LENGTH + dsz THEN -1
        ELSE structFieldLoop(field, fn, i + 1,
                             SliceFrom(currentStream, SIZEOF_LENGTH + dsz),
                             remainingSz - (SIZEOF_LENGTH + dsz))

structField(stream, sz) ==
    IF sz < SIZEOF_LENGTH THEN -1
    ELSE
    LET fn     == toWord(stream)
        header == SIZEOF_HEADER + SIZEOF_FIELD * fn
    IN  IF sz < header THEN -1
        ELSE structFieldLoop(SliceFrom(stream, SIZEOF_HEADER), fn, 0,
                             SliceFrom(stream, header), sz - header)

\* importString: the char codes of the string
importString(stream) ==
    Slice(stream, SIZEOF_LENGTH, SIZEOF_LENGTH + toSize(stream))

\* the loop of importField over the fn header entries; f.name === null is
\* named = FALSE, array is carried with the field
RECURSIVE importFieldLoop(_, _, _, _, _, _)
importFieldLoop(type_n, stream, fn, i, tag0, f) ==
    IF i >= fn
    THEN IF f.tag < 0 \/ f.type < 0 \/ ~f.named THEN [k |-> "null"]
         ELSE [k |-> "ok", f |-> f]
    ELSE
    LET word == toWord(SliceFrom(stream, SIZEOF_FIELD * i))
        tag  == tag0 + 1
        value == (word \div 2) - 1
        Go(g) == importFieldLoop(type_n, stream, fn, i + 1, tag, g)
    IN  IF word % 2 # 0
        THEN importFieldLoop(type_n, stream, fn, i + 1, tag + (word \div 2), f)
        ELSE IF tag = 0
        THEN IF word # 0 THEN [k |-> "null"]
             ELSE Go([f EXCEPT !.named = TRUE,
                               !.name = importString(
                                   SliceFrom(stream, fn * SIZEOF_FIELD))])
        ELSE IF word = 0 THEN [k |-> "null"]
        ELSE
        CASE tag = 1 ->
             IF value >= SPROTO_TSTRUCT THEN [k |-> "null"]
             ELSE Go([f EXCEPT !.type = value])
          [] tag = 2 ->
             IF f.type = SPROTO_TINTEGER
             THEN Go([f EXCEPT !.extra = calcPow(10, value)])
             ELSE IF f.type = SPROTO_TSTRING
             THEN Go([f EXCEPT !.extra = value])
             ELSE IF value >= type_n THEN [k |-> "null"]
             ELSE IF f.type >= 0 THEN [k |-> "null"]
             ELSE Go([f EXCEPT !.type = SPROTO_TSTRUCT, !.st = value])
          [] tag = 3 -> Go([f EXCEPT !.tag = value])
          [] tag = 4 ->
             Go(IF value # 0 THEN [f EXCEPT !.array = SPROTO_TARRAY] ELSE f)
          [] tag = 5 -> Go([f EXCEPT !.key = value])
          [] OTHER -> [k |-> "null"]

\* importField: the field and the stream behind it
importField(type_n, stream0) ==
    LET sz     == toSize(stream0)
        stream == SliceFrom(stream0, SIZEOF_LENGTH)
        fn     == structField(stream, sz)
        Then(r) ==
          IF r.k # "ok" THEN r
          ELSE [k |-> "ok",
                f |-> [Field(r.f.name, r.f.tag,
                             IF r.f.array # 0 /\ r.f.type < SPROTO_TARRAY
                             THEN r.f.type + r.f.array ELSE r.f.type,
                             r.f.st, r.f.extra)
                       EXCEPT !.key = r.f.key],
                result |-> SliceFrom(stream, sz)]
    IN  IF fn < 0 THEN [k |-> "null"]
        ELSE Then(importFieldLoop(type_n, SliceFrom(stream, SIZEOF_HEADER),
                                  fn, 0, -1,
                                  [tag |-> -1, type |-> -1, name |-> <<>>,
                                   named |-> FALSE, st |-> NoSt, key |-> -1,
                                   extra |-> 0, array |-> 0]))

\* a loop that accepts the fields in any order
NoOrderCheck(tag, last) == FALSE

\* if (tag <= last) return null, of the loop of importType
OutOfOrder(tag, last) == tag <= last

\* the loop of importType over the n fields
RECURSIVE importTypeLoop(_, _, _, _, _, _)
importTypeLoop(type_n, stream, n, i, last, f) ==
    IF i >= n THEN [k |-> "ok", f |-> f]
    ELSE
    LET Then(r) ==
          IF r.k # "ok" THEN [k |-> "null"]
          ELSE IF OutOfOrder(r.f.tag, last) THEN [k |-> "null"]
          ELSE importTypeLoop(type_n, r.result, n, i + 1, r.f.tag,
                              Append(f, r.f))
    IN  Then(importField(type_n, stream))

\* every header entry of a type record stands for data
RECURSIVE AllData(_, _, _)
AllData(stream, fn, i) ==
    \/ i >= fn
    \/ /\ toWord(SliceFrom(stream, SIZEOF_HEADER + i * SIZEOF_FIELD)) = 0
       /\ AllData(stream, fn, i + 1)

\* importType: the type and the stream behind it; t.f[0] of an empty field
\* array is undefined, and reading its tag a TypeError
importType(type_n, stream0) ==
    LET sz     == toSize(stream0)
        stream == SliceFrom(stream0, SIZEOF_LENGTH)
        result == SliceFrom(stream, sz)
        fn     == structField(stream, sz)
        names  == SliceFrom(stream, SIZEOF_HEADER + fn * SIZEOF_FIELD)
        name   == importString(names)
        fields == SliceFrom(names, toSize(names) + SIZEOF_LENGTH)
        n      == countArray(fields)
        Then(r) ==
          IF r.k # "ok" THEN r
          ELSE IF n = 0 THEN [k |-> "throw"]
          ELSE [k |-> "ok", t |-> Type(name, r.f), result |-> result]
    IN  IF fn <= 0 \/ fn > 2 THEN [k |-> "null"]
        ELSE IF ~AllData(stream, fn, 0) THEN [k |-> "null"]
        ELSE IF fn = 1
        THEN [k |-> "ok", t |-> Type(name, <<>>), result |-> result]
        ELSE IF n < 0 THEN [k |-> "null"]
        ELSE Then(importTypeLoop(type_n, SliceFrom(fields, SIZEOF_LENGTH),
                                 n, 0, -1, <<>>))

\* s.type?.[value] || null
TypeOrNull(types, value) ==
    IF value >= 0 /\ value < Len(types) THEN types[value + 1] ELSE Null

\* the loop of importProtocol: the switch is over the index i of the header
\* entry; p.name === null is named = FALSE
RECURSIVE importProtocolLoop(_, _, _, _, _)
importProtocolLoop(types, stream, fn, i, p) ==
    IF i >= fn
    THEN IF ~p.named \/ p.tag < 0 THEN [k |-> "null"]
         ELSE [k |-> "ok", p |-> p]
    ELSE
    LET word  == toWord(SliceFrom(stream, SIZEOF_FIELD * i))
        value == (word \div 2) - 1
        Go(q) == importProtocolLoop(types, stream, fn, i + 1, q)
    IN  IF word % 2 # 0 THEN Go(p)
        ELSE
        CASE i = 0 ->
             IF value # -1 THEN [k |-> "null"]
             ELSE Go([p EXCEPT !.named = TRUE,
                               !.name = importString(
                                   SliceFrom(stream, SIZEOF_FIELD * fn))])
          [] i = 1 ->
             IF value < 0 THEN [k |-> "null"] ELSE Go([p EXCEPT !.tag = value])
          [] i = 2 ->
             IF value < 0 \/ value >= Len(types) THEN [k |-> "null"]
             ELSE Go([p EXCEPT !.request = TypeOrNull(types, value)])
          [] i = 3 ->
             IF value < 0 \/ value > Len(types) THEN [k |-> "null"]
             ELSE Go([p EXCEPT !.response = TypeOrNull(types, value)])
          [] i = 4 -> Go([p EXCEPT !.confirm = value])
          [] OTHER -> [k |-> "null"]

\* importProtocol: the protocol and the stream behind it
importProtocol(types, stream0) ==
    LET sz     == toSize(stream0)
        stream == SliceFrom(stream0, SIZEOF_LENGTH)
        fn     == structField(stream, sz)
        Then(r) ==
          IF r.k # "ok" THEN r
          ELSE [k |-> "ok",
                p |-> Protocol(r.p.name, r.p.tag, r.p.request, r.p.response,
                               r.p.confirm),
                result |-> SliceFrom(stream, sz)]
    IN  Then(importProtocolLoop(types, SliceFrom(stream, SIZEOF_HEADER), fn, 0,
                                [name |-> <<>>, named |-> FALSE, tag |-> -1,
                                 request |-> Null, response |-> Null,
                                 confirm |-> 0]))

\* the loop of createFromBundle over the types
RECURSIVE importTypes(_, _, _, _)
importTypes(type_n, typedata, i, types) ==
    IF i >= type_n THEN [k |-> "ok", types |-> types]
    ELSE LET Then(r) ==
               IF r.k # "ok" THEN [k |-> r.k]
               ELSE importTypes(type_n, r.result, i + 1, Append(types, r.t))
         IN  Then(importType(type_n, typedata))

\* the loop of createFromBundle over the protocols
RECURSIVE importProtocols(_, _, _, _, _)
importProtocols(types, protocol_n, protocoldata, i, protos) ==
    IF i >= protocol_n THEN [k |-> "ok", protos |-> protos]
    ELSE LET Then(r) ==
               IF r.k # "ok" THEN [k |-> r.k]
               ELSE importProtocols(types, protocol_n, r.result, i + 1,
                                    Append(protos, r.p))
         IN  Then(importProtocol(types, protocoldata))

\* createFromBundle: the catalogue, null or a TypeError
createFromBundle(stream0, sz) ==
    LET fn       == structField(stream0, sz)
        stream   == SliceFrom(stream0, SIZEOF_HEADER)
        content0 == SliceFrom(stream, fn * SIZEOF_FIELD)
        content1 == SliceFrom(content0, toSize(content0) + SIZEOF_LENGTH)
        type_n   == IF fn >= 1 THEN countArray(content0) ELSE 0
        protocol_n == IF fn >= 2 THEN countArray(content1) ELSE 0
        Protos(types) ==
          LET Then(r) ==
                IF r.k # "ok" THEN [k |-> r.k]
                ELSE [k |-> "ok", sp |-> [type |-> types, proto |-> r.protos]]
          IN  Then(importProtocols(types, protocol_n,
                                   SliceFrom(content1, SIZEOF_LENGTH), 0, <<>>))
        Types(r) == IF r.k # "ok" THEN [k |-> r.k] ELSE Protos(r.types)
    IN  IF fn < 0 \/ fn > 2 THEN [k |-> "null"]
        ELSE IF fn >= 1 /\ toWord(stream) # 0 THEN [k |-> "null"]
        ELSE IF type_n < 0 THEN [k |-> "null"]
        ELSE IF fn >= 2 /\ toWord(SliceFrom(stream, SIZEOF_FIELD)) # 0
        THEN [k |-> "null"]
        ELSE IF protocol_n < 0 THEN [k |-> "null"]
        ELSE Types(importTypes(type_n, SliceFrom(content0, SIZEOF_LENGTH),
                               0, <<>>))

\* api.createNew
createNew(binsch) == createFromBundle(binsch, Len(binsch))

(***************************************************************************)
(* Bundles.  A bundle is the record { type 0 : *type, protocol 1 :         *)
(* *protocol } of the meta-schema the loader parses: type = { name 0,      *)
(* fields 1 : *field }, field = { name 0, buildin 1, type 2, tag 3,        *)
(* array 4, key 5 }, protocol = { name 0, tag 1, request 2, response 3,    *)
(* confirm 4 }.  The operators below write these records for a schema      *)
(* given as types of fields and protocols, in the order given.             *)
(***************************************************************************)
\* the 2 bytes of a header word and the 4 bytes of a length
WordBytes(v) == << v % 256, v \div 256 >>

Lengthed(bytes) == fillSize(<<0, 0, 0, 0>>, 0, Len(bytes)).buffer \o bytes

\* a member of a record: a number kept in the header, or bytes of the data
\* area; absent members are left out
Inline(tag, v) == [tag |-> tag, inline |-> TRUE, value |-> v, data |-> <<>>]

Data(tag, bytes) == [tag |-> tag, inline |-> FALSE, value |-> 0, data |-> bytes]

Present(S) == SelectSeq(S, LAMBDA e : e.tag >= 0)

Absent == Inline(-1, 0)

\* the header words of the members es, by ascending tag, with the markers
\* of the tags skipped
RECURSIVE MetaHeader(_, _, _)
MetaHeader(es, i, last) ==
    IF i > Len(es) THEN <<>>
    ELSE LET gap == es[i].tag - last - 1
         IN  (IF gap > 0 THEN << (gap - 1) * 2 + 1 >> ELSE <<>>)
             \o << IF es[i].inline THEN (es[i].value + 1) * 2 ELSE 0 >>
             \o MetaHeader(es, i + 1, es[i].tag)

RECURSIVE MetaData(_, _)
MetaData(es, i) ==
    IF i > Len(es) THEN <<>>
    ELSE (IF es[i].inline THEN <<>> ELSE Lengthed(es[i].data))
         \o MetaData(es, i + 1)

RECURSIVE Words(_, _)
Words(ws, i) ==
    IF i > Len(ws) THEN <<>> ELSE WordBytes(ws[i]) \o Words(ws, i + 1)

\* the bytes of the record of the members es
MetaRecord(es) ==
    LET h == MetaHeader(es, 1, -1)
    IN  WordBytes(Len(h)) \o Words(h, 1) \o MetaData(es, 1)

\* the bytes of an array of records
RECURSIVE MetaArray(_, _)
MetaArray(records, i) ==
    IF i > Len(records) THEN <<>>
    ELSE Lengthed(records[i]) \o MetaArray(records, i + 1)

FieldBytes(f) ==
    MetaRecord(Present(<< Data(0, f.name),
                          IF f.buildin >= 0 THEN Inline(1, f.buildin) ELSE Absent,
                          IF f.st >= 0 THEN Inline(2, f.st) ELSE Absent,
                          Inline(3, f.tag),
                          IF f.array THEN Inline(4, 1) ELSE Absent >>))

TypeBytes(t) ==
    MetaRecord(Present(<< Data(0, t.name),
                          IF t.fields # <<>>
                          THEN Data(1, MetaArray([k \in 1..Len(t.fields) |->
                                                    FieldBytes(t.fields[k])], 1))
                          ELSE Absent >>))

ProtocolBytes(p) ==
    MetaRecord(Present(<< Data(0, p.name),
                          Inline(1, p.tag),
                          IF p.request # <<>> THEN Inline(2, p.request[1])
                          ELSE Absent,
                          IF p.response # <<>> THEN Inline(3, p.response[1])
                          ELSE Absent,
                          IF p.confirm # 0 THEN Inline(4, p.confirm)
                          ELSE Absent >>))

\* the bundle of a schema
BundleOf(sch) ==
    MetaRecord(Present(<< Data(0, MetaArray([k \in 1..Len(sch.types) |->
                                               TypeBytes(sch.types[k])], 1)),
                          IF sch.protos # <<>>
                          THEN Data(1, MetaArray([k \in 1..Len(sch.protos) |->
                                                    ProtocolBytes(sch.protos[k])], 1))
                          ELSE Absent >>))

(***************************************************************************)
(* Load scenario: api.createNew loads the bundle of a schema, and the      *)
(* protocols of the loaded catalogue are queried by tag.                   *)
(***************************************************************************)
\* the most fields of the type that varies, and the largest field tag
MaxFields == 2

MaxFieldTag == 2

\* the most protocols of a schema, and the largest protocol tag
MaxProtos == 2

MaxProtoTag == 2

\* the most types of a schema
MaxTypes == 2

IntegerField(k, tag) ==
    [name |-> << 96 + k >>, tag |-> tag, buildin |-> SPROTO_TINTEGER,
     st |-> -1, array |-> FALSE]

\* field arrays of integer fields of any tags in any order
FieldLists ==
    UNION { { [k \in 1..n |-> IntegerField(k, tags[k])] :
                tags \in [1..n -> 0..MaxFieldTag] } : n \in 0..MaxFields }

\* the type that follows the varying one: a struct field and an array
LaterType(i) ==
    [name |-> << 65 + i >>,
     fields |-> << [name |-> <<120>>, tag |-> 0, buildin |-> -1, st |-> 0,
                    array |-> FALSE],
                   [name |-> <<121>>, tag |-> 1, buildin |-> SPROTO_TSTRING,
                    st |-> -1, array |-> TRUE] >>]

TypeLists ==
    { << [name |-> <<65>>, fields |-> fs] >>
        \o [i \in 1..(n - 1) |-> LaterType(i)] :
        fs \in FieldLists, n \in 1..MaxTypes }

\* a protocol of any tag whose request and response are absent or any type
\* id up to one past the number of types, with or without confirm
ProtoDescs(type_n) ==
    [name : { <<112>> }, tag : 0..MaxProtoTag,
     request : Opt(0..(type_n + 1)), response : Opt(0..(type_n + 1)),
     confirm : 0..1]

\* the protocols that follow the first: a request of type 0, of any tag
LaterProtos(n) ==
    [1..n -> { [name |-> <<113>>, tag |-> t, request |-> <<0>>,
                response |-> <<>>, confirm |-> 0] : t \in 0..MaxProtoTag }]

ProtoLists(type_n) ==
    { <<>> } \cup
    { <<p>> \o later : p \in ProtoDescs(type_n),
                       later \in UNION { LaterProtos(n) : n \in 0..(MaxProtos - 1) } }

\* the schemas of the scenario: the fields of a type vary, or the protocols
Schemas ==
    { [types |-> ts, protos |-> <<>>] : ts \in TypeLists }
    \cup
    UNION { { [types |-> << [name |-> <<65>>,
                             fields |-> << IntegerField(1, 0) >>] >>
                         \o [i \in 1..(n - 1) |-> LaterType(i)],
               protos |-> ps] : ps \in ProtoLists(n) } : n \in 1..MaxTypes }

InitLoad ==
    /\ pc = "bundle"
    /\ schema \in Schemas
    /\ bundle = BundleOf(schema)
    /\ loaded = NoResult
    /\ PackIdle
    /\ CodecIdle
    /\ RpcIdle
    /\ EnvIdle

\* api.createNew(bundle)
CreateNew ==
    /\ pc = "bundle"
    /\ loaded' = createNew(bundle)
    /\ pc' = "loaded"
    /\ UNCHANGED <<schema, bundle, packVars, codecVars, rpcVars, alertDefined>>

\* queryProto(sp, tag) of the catalogue loaded
QueryProto ==
    /\ pc = "loaded"
    /\ loaded.k = "ok"
    /\ \E tag \in 0..MaxProtoTag :
          loaded' = [k |-> "ok", sp |-> loaded.sp, asked |-> tag,
                     found |-> queryProto(loaded.sp, tag)]
    /\ pc' = "queried"
    /\ UNCHANGED <<schema, bundle, packVars, codecVars, rpcVars, alertDefined>>

NextLoad == CreateNew \/ QueryProto

SpecLoad == InitLoad /\ [][NextLoad]_vars

\* the tags of the elements of a sequence are strictly ascending
Ascending(S) == \A i \in 1..(Len(S) - 1) : S[i].tag < S[i + 1].tag

Loaded == pc \in { "loaded", "queried" }

\* C14: createNew rejects every bundle in which the field array of a type
\* is not strictly ascending by tag
C14_FieldOrder ==
    (Loaded /\ \E i \in 1..Len(schema.types) : ~Ascending(schema.types[i].fields))
        => loaded.k = "null"

\* a bundle with a field array out of order was handed to createNew
C14_Witness ==
    /\ pc = "loaded"
    /\ loaded.k = "null"
    /\ \E i \in 1..Len(schema.types) :
          /\ Len(schema.types[i].fields) = 2
          /\ schema.types[i].fields[1].tag > schema.types[i].fields[2].tag
    /\ schema.protos = <<>>

\* the type ids of the requests and responses of the schema
TypeIds(sch) ==
    UNION { { p.request[k] : k \in 1..Len(p.request) }
            \cup { p.response[k] : k \in 1..Len(p.response) } :
            p \in { sch.protos[j] : j \in 1..Len(sch.protos) } }

\* C15: createNew rejects every bundle in which the request or the response
\* of a protocol is a type id not less than the number of types, the id
\* equal to that number included
C15_TypeIdRange ==
    (Loaded /\ \E id \in TypeIds(schema) : id >= Len(schema.types))
        => loaded.k = "null"

\* C16: the protocols of every catalogue createNew returned are strictly
\* ascending by tag, and queryProto finds every one of them by its tag
C16_ProtocolOrder ==
    (Loaded /\ loaded.k = "ok") =>
        /\ Ascending(loaded.sp.proto)
        /\ (pc = "queried"
              /\ \E i \in 1..Len(loaded.sp.proto) :
                    loaded.sp.proto[i].tag = loaded.asked)
           => (loaded.found # Null /\ loaded.found.tag = loaded.asked)

\* the type of the catalogue a type id of the schema names, or null
LoadedType(id) == IF id = <<>> THEN Null ELSE loaded.sp.type[id[1] + 1]

\* C17: the loader stores the member of meta-tag 2 as the request, of
\* meta-tag 3 as the response and of meta-tag 4 as confirm, whichever of
\* the three a protocol has
C17_ProtocolMembers ==
    (Loaded /\ loaded.k = "ok") =>
        \A i \in 1..Len(schema.protos) :
           /\ loaded.sp.proto[i].request = LoadedType(schema.protos[i].request)
           /\ loaded.sp.proto[i].response = LoadedType(schema.protos[i].response)
           /\ loaded.sp.proto[i].confirm = schema.protos[i].confirm

(***************************************************************************)
(* The integer field id (tag 0) of Scalars in the bytes sp.encode wrote.   *)
(***************************************************************************)
\* the little-endian bytes of the two's complement of v, 4 and 8 of them
Le32(v) ==
    << v.lo % 256, v.lo \div 256, (v.hi % 65536) % 256, (v.hi % 65536) \div 256 >>

Le64(v) ==
    Le32(v) \o << ((v.hi \div 65536) % 65536) % 256,
                  ((v.hi \div 65536) % 65536) \div 256,
                  IF v.hi < 0 THEN 255 ELSE 0, IF v.hi < 0 THEN 255 ELSE 0 >>

\* -2^31 <= v < 2^31
Fits32(v) == v.hi >= -32768 /\ v.hi <= 32767

\* 0 <= v <= 0x7FFE
InlineRange(v) == v.hi = 0 /\ v.lo <= 32766

\* the entries of the data area that belong to the field of tag 0
IdEntries(buf) == SelectSeq(EntriesOf(buf), LAMBDA e : e.tag = 0)

\* C18: an integer field v in [0, 0x7FFE] is written as the header slot
\* 2 * (v + 1) without bytes in the data area; any other v as the header
\* slot 0 and a data entry of 4 little-endian two's-complement bytes when
\* -2^31 <= v < 2^31 and of 8 otherwise; decoding returns v
C18_IntegerField ==
    (pc \in { "encoded", "decoded" } /\ wrtype = "Scalars"
       /\ "id" \in DOMAIN srcval) =>
        /\ encoded.k = "ok"
        /\ LET v    == srcval.id
               buf  == encoded.buffer
               slot == toWord(SliceFrom(buf, SIZEOF_HEADER))
               es   == IdEntries(buf)
           IN  IF InlineRange(v)
               THEN slot = 2 * (ToInt(v) + 1) /\ es = <<>>
               ELSE /\ slot = 0
                    /\ Len(es) = 1
                    /\ BodyOf(buf, es[1])
                         = IF Fits32(v) THEN Le32(v) ELSE Le64(v)
        /\ (pc = "decoded" /\ rdtype = wrtype) =>
              /\ decoded.k = "ok"
              /\ "id" \in DOMAIN decoded.result
              /\ decoded.result.id = srcval.id

\* an integer that needs 8 bytes was encoded and decoded
C18_Witness ==
    /\ pc = "decoded"
    /\ wrtype = "Scalars"
    /\ rdtype = "Scalars"
    /\ "id" \in DOMAIN srcval
    /\ srcval.id = [hi |-> -32769, lo |-> 65535]
    /\ decoded.k = "ok"
    /\ decoded.result.id = srcval.id

(***************************************************************************)
(* The header of the bytes sp.encode wrote.                                *)
(***************************************************************************)
\* the header words of a record
HeaderWords(buf) ==
    [i \in 1..toWord(buf) |->
        toWord(SliceFrom(buf, SIZEOF_HEADER + (i - 1) * SIZEOF_FIELD))]

\* the tags of the value slots the walk of sprotoDecode over the header
\* words visits: tag starts at -1, every entry adds 1, an odd entry m adds
\* floor(m / 2) more
RECURSIVE WalkTags(_, _, _)
WalkTags(ws, i, tag) ==
    IF i > Len(ws) THEN <<>>
    ELSE IF ws[i] % 2 # 0
    THEN WalkTags(ws, i + 1, tag + 1 + (ws[i] \div 2))
    ELSE << tag + 1 >> \o WalkTags(ws, i + 1, tag + 1)

\* the tags of the fields of st that obj holds, in the order of the fields
RECURSIVE PresentTags(_, _, _)
PresentTags(st, obj, i) ==
    IF i > Len(st.f) THEN <<>>
    ELSE (IF st.f[i].name \in DOMAIN obj THEN << st.f[i].tag >> ELSE <<>>)
         \o PresentTags(st, obj, i + 1)

\* the markers the header of present tags holds, a value slot shown as 0
RECURSIVE MarkersOf(_, _, _)
MarkersOf(tags, i, last) ==
    IF i > Len(tags) THEN <<>>
    ELSE LET gap == tags[i] - last - 1
         IN  (IF gap > 0 THEN << (gap - 1) * 2 + 1 >> ELSE <<>>) \o << 0 >>
             \o MarkersOf(tags, i + 1, tags[i])

HeaderMarkers(buf) ==
    LET ws == HeaderWords(buf)
    IN  [i \in 1..Len(ws) |-> IF ws[i] % 2 # 0 THEN ws[i] ELSE 0]

\* C19: the header sp.encode writes holds, before each present field whose
\* tag is gap + 1 above the previous present tag (gap > 0), the marker
\* (gap - 1) * 2 + 1, and the walk of the decoder over it visits value
\* slots at exactly the tags of the present fields, strictly increasing
C19_HeaderWalk ==
    (pc \in { "encoded", "decoded" } /\ encoded.k = "ok") =>
        LET tags == PresentTags(queryType(Sp, wrtype), srcval, 1)
        IN  /\ HeaderMarkers(encoded.buffer) = MarkersOf(tags, 1, -1)
            /\ WalkTags(HeaderWords(encoded.buffer), 1, -1) = tags
            /\ \A i \in 1..(Len(tags) - 1) : tags[i] < tags[i + 1]

\* the same for the types without array fields
C19_NoArrays ==
    wrtype \in { "Scalars", "New1", "New2", "New3", "Gaps" } => C19_HeaderWalk

(***************************************************************************)
(* The second encodeIntegerArray of sproto.ts, of the implementation that  *)
(* follows the first in the file.  Its callback hands the element          *)
(* index - 1 of the array: 4 bytes when the element fits 32 bits, else 8.  *)
(***************************************************************************)
\* the 4 -> 8 promotion of the second definition: the sign extension is
\* written at bufferIdx + 1 + i * 8, bufferIdx being advanced already
RECURSIVE promoteLoopSecond(_, _, _, _)
promoteLoopSecond(buffer, headerIdx, bufferIdx, i) ==
    IF i < 0 THEN buffer
    ELSE
    LET b1 == promoteCopy(buffer, headerIdx, i, 1 + i * 8, 1 + i * 8 + 4)
        negative == Byte(At(b1, headerIdx + 1 + i * 8 + 3)) >= 128
    IN  promoteLoopSecond(uint32ToUint64(negative, b1, bufferIdx + 1 + i * 8),
                          headerIdx, bufferIdx, i - 1)

\* the for (;;) loop of the second definition over the array arr
RECURSIVE encodeIntegerArraySecondLoop(_, _, _, _, _, _)
encodeIntegerArraySecondLoop(arr, buffer, headerIdx, bufferIdx, intLen, index) ==
    IF index - 1 >= Len(arr)
    THEN [bufferIdx |-> IF bufferIdx = headerIdx + 1 THEN headerIdx
                        ELSE bufferIdx,
          buffer |-> IF bufferIdx = headerIdx + 1 THEN buffer
                     ELSE SetAt(buffer, headerIdx, intLen % 256)]
    ELSE
    LET target == arr[index]
        vh     == uint64Rshift(target, 31)
    IN  IF vh = Num(0) \/ vh = Num(-1)
        THEN LET v  == ToUint32(target)
                 b1 == SetAt(SetAt(SetAt(SetAt(buffer,
                           bufferIdx, AndFF(v)),
                           bufferIdx + 1, ShrAndFF(v, 8)),
                           bufferIdx + 2, ShrAndFF(v, 16)),
                           bufferIdx + 3, ShrAndFF(v, 24))
             IN  encodeIntegerArraySecondLoop(arr,
                     IF intLen = 8
                     THEN uint32ToUint64(ToInt32(v).hi < 0, b1, bufferIdx)
                     ELSE b1,
                     headerIdx, bufferIdx + intLen, intLen, index + 1)
        ELSE LET at == IF intLen = 4 THEN bufferIdx + (index - 1) * 4
                       ELSE bufferIdx
             IN  encodeIntegerArraySecondLoop(arr,
                     writeUint64(target,
                                 IF intLen = 4
                                 THEN promoteLoopSecond(buffer, headerIdx, at,
                                                        index - 2)
                                 ELSE buffer,
                                 at, 0),
                     headerIdx, at + 8, 8, index + 1)

(***************************************************************************)
(* Integer-array scenario: an array of integers is written by the first or *)
(* by the second encodeIntegerArray into an empty buffer.                  *)
(***************************************************************************)
\* the most elements of an array of the scenario
MaxInts == 3

\* integers of 32 bits and of 64 bits, of either sign
IntElements ==
    { Num(1), Num(-2), [hi |-> 65536, lo |-> 0], [hi |-> -65537, lo |-> 65535] }

IntArrays == UNION { [1..n -> IntElements] : n \in 1..MaxInts }

\* the bytes a definition wrote: buffer.slice(0, bufferIdx)
Written(r) == [k |-> "ok", buffer |-> Slice(r.buffer, 0, r.bufferIdx)]

InitInts ==
    /\ pc = "ints"
    /\ wrtype = "Arrays"
    /\ srcval \in IntArrays
    /\ encoded = NoResult
    /\ rdtype = ""
    /\ decoded = NoResult
    /\ damage = "none"
    /\ level = 0
    /\ PackIdle
    /\ RpcIdle
    /\ LoadIdle
    /\ EnvIdle

\* encodeIntegerArray of lines 855-931, with the callback encode
EncodeIntegerArrayFirst ==
    /\ pc = "ints"
    /\ encoded' = Written(encodeIntegerArrayLoop(Sp,
                      FieldArgs(Sp, queryType(Sp, wrtype).f[1],
                                SPROTO_TINTEGER, 0),
                      [indata |-> [ints |-> srcval], deep |-> 0],
                      <<>>, 0, 1, 4, 1))
    /\ pc' = "ints by the first"
    /\ UNCHANGED <<wrtype, srcval, rdtype, decoded, damage, level, packVars, rpcVars, loadVars, alertDefined>>

\* encodeIntegerArray of lines 2869-2932
EncodeIntegerArraySecond ==
    /\ pc = "ints"
    /\ encoded' = Written(encodeIntegerArraySecondLoop(srcval, <<>>, 0, 1, 4, 1))
    /\ pc' = "ints by the second"
    /\ UNCHANGED <<wrtype, srcval, rdtype, decoded, damage, level, packVars, rpcVars, loadVars, alertDefined>>

NextInts == EncodeIntegerArrayFirst \/ EncodeIntegerArraySecond

SpecInts == InitInts /\ [][NextInts]_vars

\* the first element fits 32 bits and a later one needs 64
Promotes(arr) ==
    /\ Fits32(arr[1])
    /\ \E i \in 2..Len(arr) : ~Fits32(arr[i])

\* every element as 8 two's-complement bytes, in order
RECURSIVE Wide(_, _)
Wide(arr, i) == IF i > Len(arr) THEN <<>> ELSE Le64(arr[i]) \o Wide(arr, i + 1)

\* C20: both definitions of encodeIntegerArray write, for an array whose
\* first k >= 1 elements fit 32 bits and whose next element needs 64, the
\* width byte 8 and every element as 8 bytes in the original order, the
\* earlier ones sign-extended
C20_Promotion ==
    (pc \in { "ints by the first", "ints by the second" } /\ Promotes(srcval))
        => encoded.buffer = <<8>> \o Wide(srcval, 1)

\* the same for the first definition alone
C20_First ==
    (pc = "ints by the first" /\ Promotes(srcval))
        => encoded.buffer = <<8>> \o Wide(srcval, 1)

(***************************************************************************)
(* The layout of the packed output, block by block.                        *)
(***************************************************************************)
\* byte j (from 1) of the input b, read as 0 past its end
PadAt(b, j) == IF j <= Len(b) THEN b[j] ELSE 0

\* the number of 8-byte blocks of the input b, the last one padded
NumBlocks(b) == (Len(b) + 7) \div 8

\* the non-zero positions (0..7) of block k (from 0) of b
NonZeroAt(b, k) == { i \in 0..7 : PadAt(b, 8 * k + i + 1) # 0 }

\* the length of the open dense run after block k: a block of 8 non-zero
\* bytes opens a run, a block of 6 or more continues an open one, and a run
\* closes at 256 blocks
RECURSIVE OpenRun(_, _)
OpenRun(b, k) ==
    IF k < 0 THEN 0
    ELSE LET nz == Cardinality(NonZeroAt(b, k))
             Then(ff) ==
               IF ff = 0 THEN (IF nz = 8 THEN 1 ELSE 0)
               ELSE IF nz >= 6 THEN (IF ff + 1 = 256 THEN 0 ELSE ff + 1)
               ELSE 0
         IN  Then(OpenRun(b, k - 1))

\* block k of b belongs to a dense run
InDenseRun(b, k) ==
    LET nz == Cardinality(NonZeroAt(b, k))
    IN  IF k > 0 /\ OpenRun(b, k - 1) > 0 THEN nz >= 6 ELSE nz = 8

\* block k of b opens a dense run
OpensRun(b, k) ==
    InDenseRun(b, k) /\ (k = 0 \/ OpenRun(b, k - 1) = 0)

\* the first and the last block of the dense run block k belongs to
RECURSIVE RunFirst(_, _)
RunFirst(b, k) == IF OpensRun(b, k) THEN k ELSE RunFirst(b, k - 1)

RECURSIVE RunLast(_, _)
RunLast(b, k) ==
    IF k + 1 < NumBlocks(b) /\ InDenseRun(b, k + 1) /\ ~OpensRun(b, k + 1)
    THEN RunLast(b, k + 1)
    ELSE k

\* the offset in the output at which the segment of block k starts: a run
\* takes 2 + 8 bytes per block, a sparse block its header and non-zero bytes
RECURSIVE SegOffset(_, _)
SegOffset(b, k) ==
    IF k = 0 THEN 0
    ELSE LET Then(o) ==
               IF OpensRun(b, k - 1) THEN o + 10
               ELSE IF InDenseRun(b, k - 1) THEN o + 8
               ELSE o + 1 + Cardinality(NonZeroAt(b, k - 1))
         IN  Then(SegOffset(b, k - 1))

\* out holds block k of b in dense form: 0xFF and the run's block count
\* less one where the run starts, and the block's 8 raw bytes in their place
DenseForm(b, out, k) ==
    LET a == RunFirst(b, k)
        o == SegOffset(b, a)
    IN  /\ Len(out) >= o + 2 + 8 * (k - a + 1)
        /\ out[o + 1] = 255
        /\ out[o + 2] = RunLast(b, k) - a
        /\ \A j \in 1..8 : out[o + 2 + 8 * (k - a) + j] = PadAt(b, 8 * k + j)

AloneDense(b, out, o, k) ==
    /\ Len(out) >= o + 10
    /\ out[o + 1] = 255
    /\ out[o + 2] = 0
    /\ \A j \in 1..8 : out[o + 2 + j] = PadAt(b, 8 * k + j)

BlockBytes(b, k) == [j \in 1..8 |-> PadAt(b, 8 * k + j)]

\* the header of a sparse segment: bit i set exactly when byte i is non-zero
RECURSIVE HeaderBits(_, _, _)
HeaderBits(b, k, i) ==
    IF i >= 8 THEN 0
    ELSE (IF i \in NonZeroAt(b, k) THEN Pow2(i) ELSE 0) + HeaderBits(b, k, i + 1)

\* out holds block k of b in sparse form at the block's offset, and ends
\* there when the block is the last
SparseForm(b, out, k) ==
    LET o  == SegOffset(b, k)
        nz == SelectSeq(BlockBytes(b, k), LAMBDA x : x # 0)
    IN  /\ Len(out) >= o + 1 + Len(nz)
        /\ out[o + 1] = HeaderBits(b, k, 0)
        /\ SubSeq(out, o + 2, o + 1 + Len(nz)) = nz
        /\ (k = NumBlocks(b) - 1 => Len(out) = o + 1 + Len(nz))

\* b padded with zeros to a whole number of blocks
Padded(b) == [j \in 1..(8 * NumBlocks(b)) |-> PadAt(b, j)]

ArrayFields(st) ==
    { i \in 1..Len(st.f) : st.f[i].type >= SPROTO_TARRAY }

\* the fields of the written type that the value holds as an empty array
EmptyArrays ==
    { i \in ArrayFields(queryType(Sp, wrtype)) :
        /\ queryType(Sp, wrtype).f[i].name \in DOMAIN srcval
        /\ srcval[queryType(Sp, wrtype).f[i].name] = <<>> }

\* the data entries of buf end where buf ends
EntriesFill(buf) ==
    LET es == EntriesOf(buf)
    IN  IF es = <<>>
        THEN Len(buf) = SIZEOF_HEADER + toWord(buf) * SIZEOF_FIELD
        ELSE Len(buf) = es[Len(es)].at + SIZEOF_LENGTH + es[Len(es)].sz

\* C23: encoding a record whose integer, boolean, string or struct array
\* field is an empty array emits header slot 0 for the field and a data
\* entry whose length prefix is 0, with no width byte after it; decoding
\* those bytes yields the field present as an empty array
C23_EmptyArrays ==
    \A i \in EmptyArrays :
        LET f == queryType(Sp, wrtype).f[i]
        IN  /\ pc \in { "encoded", "decoded" } =>
                /\ encoded.k = "ok"
                /\ \E j \in 1..Len(EntriesOf(encoded.buffer)) :
                      /\ EntriesOf(encoded.buffer)[j].tag = f.tag
                      /\ EntriesOf(encoded.buffer)[j].sz = 0
                /\ EntriesFill(encoded.buffer)
            /\ (pc = "decoded" /\ rdtype = wrtype) =>
                /\ decoded.k = "ok"
                /\ f.name \in DOMAIN decoded.result
                /\ decoded.result[f.name] = <<>>

\* a record of three empty arrays, and one of an empty array of records,
\* decoded
C23_Witness ==
    /\ pc = "decoded"
    /\ rdtype = wrtype
    /\ \/ wrtype = "Arrays" /\ Cardinality(EmptyArrays) = 3
       \/ wrtype = "Outer" /\ Cardinality(EmptyArrays) = 1
                           /\ "one" \in DOMAIN srcval

(***************************************************************************)
(* Trailing-bytes scenario: a value of a type is encoded, and the record   *)
(* followed by other bytes is measured with sp.objlen and decoded with     *)
(* sp.decode, as host.dispatch does with the envelope of a message.  The   *)
(* hosts of the order scenario exchange messages beside it.                *)
(***************************************************************************)
\* the bytes that follow a record: nothing, a zero, bytes that read as
\* sizes too large, and bytes that read as another record
Tails ==
    { <<>>, <<0>>, <<255, 255, 255, 255, 255, 255>>,
      <<1, 0, 0, 0, 1, 0, 0, 0, 7>> }

InitTrail ==
    /\ pc = "record"
    /\ wrtype \in CodecTypes
    /\ srcval \in ValuesOf(wrtype)
    /\ encoded = NoResult
    /\ rdtype = ""
    /\ decoded = NoResult
    /\ damage = "none"
    /\ level = 0
    /\ PackIdle
    /\ RpcIdle
    /\ LoadIdle
    /\ EnvIdle

EncodeRecord ==
    /\ pc = "record"
    /\ encoded' = spEncode(Sp, queryType(Sp, wrtype), srcval)
    /\ pc' = "sent"
    /\ UNCHANGED <<wrtype, srcval, rdtype, decoded, damage, level, packVars, rpcVars, loadVars, alertDefined>>

\* sp.objlen and sp.decode of the record followed by tail, and sp.decode of
\* the record alone
Measure(tail) ==
    /\ pc = "sent"
    /\ encoded.k = "ok"
    /\ inbuf' = encoded.buffer \o tail
    /\ rdtype' = wrtype
    /\ decoded' = [k |-> "measured",
                   objlen |-> objlen(Sp, queryType(Sp, wrtype),
                                     encoded.buffer \o tail).r,
                   whole |-> spDecode(Sp, queryType(Sp, wrtype),
                                      encoded.buffer \o tail),
                   alone |-> spDecode(Sp, queryType(Sp, wrtype),
                                      encoded.buffer)]
    /\ pc' = "measured"
    /\ UNCHANGED <<wrtype, srcval, encoded, damage, level, packed, unpacked, rpcVars, loadVars, alertDefined>>

NextTrail ==
    \/ EncodeRecord
    \/ \E tail \in Tails : Measure(tail)
    \/ NextOrder

SpecTrail == (InitTrail \/ InitOrder) /\ [][NextTrail]_vars

\* the envelope a message of the order scenario was built with
EnvelopeOf(m) ==
    Envelope(IF m.kind = "req" THEN <<Num(ProtoOfMsg(m).tag)>> ELSE <<>>,
             m.session)

\* the type the payload of a message of the order scenario was encoded as
PayloadType(m) ==
    IF m.kind = "req" THEN ProtoOfMsg(m).request ELSE ProtoOfMsg(m).response

\* C24: for a buffer made of the encoded record of a type followed by other
\* bytes, sp.objlen returns exactly the length of the record and sp.decode
\* returns the value the record alone decodes to; host.dispatch therefore
\* splits the unpacked message exactly after the envelope: what is left is
\* the encoded payload, and it decodes to the args sent
C24_TrailingBytes ==
    /\ pc = "measured" =>
          /\ decoded.objlen = Len(encoded.buffer)
          /\ decoded.whole = decoded.alone
          /\ decoded.alone.k = "ok"
    /\ (pc = "order" /\ lastCall.op = "dispatch") =>
          LET m    == lastCall.msg
              bin  == unpack(m.bytes)
              head == spEncode(Sp, PackageOf(lastCall.host), EnvelopeOf(m))
              body == spEncode(Sp, PayloadType(m), m.args[1])
              left == leftbufferOf(bin, objlen(Sp, PackageOf(lastCall.host),
                                               bin).r)
          IN  /\ left = SliceFrom(bin, Len(head.buffer))
              /\ SubSeq(bin, 1, Len(head.buffer)) = head.buffer
              /\ SubSeq(left, 1, Len(body.buffer)) = body.buffer
              /\ lastCall.out.k = "ok"
              /\ lastCall.out.result = m.args

\* a record followed by bytes that read as another record was measured,
\* and a request was split
C24_Witness ==
    \/ /\ pc = "measured"
       /\ Len(inbuf) = Len(encoded.buffer) + 9
       /\ wrtype = "Scalars"
       /\ DOMAIN srcval = { "id", "name" }
    \/ /\ pc = "order"
       /\ lastCall.op = "dispatch"
       /\ lastCall.msg.kind = "req"
       /\ lastCall.out.k = "ok"

(***************************************************************************)
(* Field lookup scenario: a bundle of types is loaded and findTag is asked *)
(* for a tag of one of the loaded types.                                   *)
(***************************************************************************)
\* field arrays of up to MaxFields + 1 integer fields of tags up to
\* MaxFieldTag + 2, in any order: loaded, they are dense from 0, dense from
\* a higher base, or sparse
FindFieldLists ==
    UNION { { [k \in 1..n |-> IntegerField(k, tags[k])] :
                tags \in [1..n -> 0..(MaxFieldTag + 2)] } :
            n \in 0..(MaxFields + 1) }

InitFind ==
    /\ pc = "bundle"
    /\ schema \in { [types |-> << [name |-> <<65>>, fields |-> fs] >>
                              \o [i \in 1..(n - 1) |-> LaterType(i)],
                     protos |-> <<>>] :
                    fs \in FindFieldLists, n \in 1..MaxTypes }
    /\ bundle = BundleOf(schema)
    /\ loaded = NoResult
    /\ PackIdle
    /\ CodecIdle
    /\ RpcIdle
    /\ EnvIdle

\* findTag(st, tag) for a type st of the catalogue loaded
FindTag ==
    /\ pc = "loaded"
    /\ loaded.k = "ok"
    /\ \E i \in 1..Len(loaded.sp.type), tag \in 0..(MaxFieldTag + 3) :
          loaded' = [k |-> "ok", sp |-> loaded.sp, asked |-> <<i, tag>>,
                     found |-> findTag(loaded.sp.type[i], tag)]
    /\ pc' = "found"
    /\ UNCHANGED <<schema, bundle, packVars, codecVars, rpcVars, alertDefined>>

NextFind == CreateNew \/ FindTag

SpecFind == InitFind /\ [][NextFind]_vars

\* the answer of a linear search of the field array of st for tag
LinearSearch(st, tag) ==
    IF \E j \in 1..Len(st.f) : st.f[j].tag = tag
    THEN [k |-> "field",
          f |-> st.f[CHOOSE j \in 1..Len(st.f) : st.f[j].tag = tag]]
    ELSE [k |-> "null"]

\* C25: findTag agrees with a linear search: for every loaded type, dense
\* (base >= 0) or sparse (base = -1), and every tag >= 0 it returns the
\* field with that tag when one exists and null otherwise
C25_FindTag ==
    pc = "found" =>
        loaded.found = LinearSearch(loaded.sp.type[loaded.asked[1]],
                                    loaded.asked[2])

\* the same for the sparse types, which findTag searches by bisection
C25_Sparse ==
    (pc = "found" /\ loaded.sp.type[loaded.asked[1]].base = -1) =>
        loaded.found = LinearSearch(loaded.sp.type[loaded.asked[1]],
                                    loaded.asked[2])

\* the same for the dense types and the tags other than base + n
C25_DenseInside ==
    (/\ pc = "found"
     /\ loaded.sp.type[loaded.asked[1]].base >= 0
     /\ ~loaded.sp.type[loaded.asked[1]].fnull
     /\ loaded.asked[2] # loaded.sp.type[loaded.asked[1]].base
                           + loaded.sp.type[loaded.asked[1]].n) =>
        loaded.found = LinearSearch(loaded.sp.type[loaded.asked[1]],
                                    loaded.asked[2])

\* the record buf of type st keeps within the header space reserved for it:
\* its header holds at most st.maxn entries, and its data entries start
\* right after the last of them and end where the record ends
WithinHeader(st, buf) ==
    /\ toWord(buf) <= st.maxn
    /\ Len(buf) >= SIZEOF_HEADER + toWord(buf) * SIZEOF_FIELD
    /\ EntriesFill(buf)

\* C26: the header entries sprotoEncode writes (value slots plus tag-gap
\* markers) are at most the maxn of the type, for every subset of the
\* fields present, so they never reach the data area reserved at offset
\* 2 + 2 * maxn, and the record returned has its data area directly after
\* the last written header entry; the same holds of a record nested in it
C26_HeaderSpace ==
    (pc \in { "encoded", "decoded" } /\ encoded.k = "ok") =>
        /\ WithinHeader(queryType(Sp, wrtype), encoded.buffer)
        /\ (wrtype = "Outer" /\ "one" \in DOMAIN srcval) =>
               WithinHeader(queryType(Sp, "Inner"),
                            BodyOf(encoded.buffer, EntriesOf(encoded.buffer)[1]))

\* a record whose only present field follows a tag gap, its data moved down
\* to the two header entries written, and a record that fills its header
C26_Witness ==
    /\ pc = "encoded"
    /\ encoded.k = "ok"
    /\ \/ /\ wrtype = "Gaps"
          /\ DOMAIN srcval = { "q" }
          /\ toWord(encoded.buffer) = 2
          /\ queryType(Sp, wrtype).maxn = 5
          /\ Len(encoded.buffer) = 11
       \/ /\ wrtype = "Scalars"
          /\ DOMAIN srcval = { "id", "ok", "name", "blob" }
          /\ toWord(encoded.buffer) = queryType(Sp, wrtype).maxn

\* C27: round trip modulo padding: api.unpack(api.pack(b)) is b followed by
\* exactly (8 - |b| mod 8) mod 8 zero bytes, b padded to the next multiple
\* of 8 and nothing more, also when b ends in a dense run
C27_RoundTripPadded ==
    pc = "unpacked" => unpacked = Padded(inbuf)

\* the same for the inputs that do not end in a dense run of two or more
\* blocks whose last block has 8 non-zero bytes
C27_NoFullRunEnd ==
    (/\ pc = "unpacked"
     /\ ~(/\ NumBlocks(inbuf) >= 2
          /\ Cardinality(NonZeroAt(inbuf, NumBlocks(inbuf) - 1)) = 8
          /\ OpenRun(inbuf, NumBlocks(inbuf) - 2) > 0)) =>
        unpacked = Padded(inbuf)

\* C28: a send that fails leaves the session table unchanged: whenever the
\* closure attach returned throws or produces no bytes (an unknown protocol
\* name, args that cannot be encoded, args given for a protocol without a
\* request type), the session table of the host is what it was before
C28_FailedSend ==
    (lastCall.op = "send" /\ lastCall.out.k # "ok") =>
        hostSession[lastCall.host] = lastCall.before

\* the same for the sends that name no protocol of the catalogue
C28_UnknownName ==
    (/\ lastCall.op = "send"
     /\ lastCall.out.k # "ok"
     /\ protocolOfName(SpOf(lastCall.host), lastCall.msg.name) = Null) =>
        hostSession[lastCall.host] = lastCall.before

(***************************************************************************)
(* The second sprotoPack of sproto.ts, of the implementation that follows  *)
(* the first in the file.  It keeps the arrays a dense run started in but  *)
(* not the offsets, and calls writeFF with source and destination offset 0.*)
(***************************************************************************)
\* packSegment: the loop and the 6-or-7 rule are those of packSeg; a full
\* destination answers 0
packSegment(src, srcIdx, dest, destIdx, destRemaining, ffCount) ==
    IF destRemaining - 1 < 0
    THEN [n |-> 0, buffer |-> dest]
    ELSE LET Then(l) ==
               IF packSegFull(l.notzero, ffCount) = 8
               THEN [n |-> IF ffCount > 0 THEN 8 ELSE 10, buffer |-> l.buffer]
               ELSE [n |-> packSegFull(l.notzero, ffCount) + 1,
                     buffer |-> SetAt(l.buffer, destIdx, l.header)]
         IN  Then(packSegLoop(src, srcIdx, dest, destIdx + 1,
                              destRemaining - 1, 0, 0, 0))

writeFF(src, srcIdx, dest, destIdx, n) ==
    LET align8N == ((n + 7) \div 8) * 8
        d1 == SetAt(dest, destIdx, 255)
        d2 == SetAt(d1, destIdx + 1, (align8N \div 8) - 1)
        d3 == writeFfCopy(src, srcIdx, d2, destIdx, 0, n)
    IN  writeFfPad(d3, destIdx, n, 0, align8N - n)

\* the for loop of the second sprotoPack; s is the record of its local
\* variables, ffSet telling that ffSrcStart and ffDesStart are not null
RECURSIVE sprotoPackSecondLoop(_, _, _)
sprotoPackSecondLoop(srcLen, i, s) ==
    IF i >= srcLen THEN s
    ELSE
    LET padding == i + 8 - srcLen
        srcArr  == IF padding > 0 THEN packTmp(s.srcArr, s.srcIdx, padding)
                   ELSE s.srcArr
        srcIdx  == IF padding > 0 THEN 0 ELSE s.srcIdx
        Flush(dest, size, n) ==
          IF s.bufRemaining - size >= 0 /\ s.ffSet
          THEN writeFF(s.ffSrcStart, 0, dest, 0, n)
          ELSE dest
        Next(t, n) ==
          sprotoPackSecondLoop(srcLen, i + 8,
              [t EXCEPT !.srcArr = srcArr, !.srcIdx = srcIdx + 8,
                        !.bufRemaining = s.bufRemaining - n,
                        !.destIdx = s.destIdx + n, !.size = s.size + n])
        Seg(r) ==
          Next(IF r.n = 10
               THEN [s EXCEPT !.ffSrcStart = srcArr, !.ffSet = TRUE,
                              !.ffCount = 1, !.dest = r.buffer]
               ELSE IF r.n = 8 /\ s.ffCount > 0
               THEN IF s.ffCount + 1 = 256
                    THEN [s EXCEPT !.dest = Flush(r.buffer, r.n, 256 * 8),
                                   !.ffCount = 0]
                    ELSE [s EXCEPT !.dest = r.buffer,
                                   !.ffCount = s.ffCount + 1]
               ELSE IF s.ffCount > 0 /\ s.ffSet
                    THEN [s EXCEPT !.dest = Flush(r.buffer, r.n, s.ffCount * 8),
                                   !.ffCount = 0]
                    ELSE [s EXCEPT !.dest = r.buffer],
               r.n)
    IN  Seg(packSegment(srcArr, srcIdx, s.dest, s.destIdx, s.bufRemaining,
                        s.ffCount))

\* the second sprotoPack: returns the size and the buffer it wrote
sprotoPackSecond(src, srcIdx, dest, destIdx) ==
    LET srcLen == Len(src)
        Zeroed(w, size) == IF Len(w) > size THEN packZeroTail(w, size) ELSE w
        Then(s) ==
          [size |-> s.size,
           buffer |-> IF s.bufRemaining >= 0
                      THEN Zeroed(IF s.ffCount = 1 /\ s.ffSet
                                  THEN writeFF(s.ffSrcStart, 0, s.dest, 0, 8)
                                  ELSE IF s.ffCount > 1 /\ s.ffSet
                                  THEN writeFF(s.ffSrcStart, 0, s.dest, 0,
                                               Len(src) - 0)
                                  ELSE s.dest,
                                  s.size)
                      ELSE s.dest]
    IN  Then(sprotoPackSecondLoop(srcLen, 0,
                 [srcArr |-> src, srcIdx |-> srcIdx, dest |-> dest,
                  destIdx |-> destIdx, bufRemaining |-> BufSz,
                  ffSrcStart |-> <<>>, ffSet |-> FALSE, ffCount |-> 0,
                  size |-> 0]))

\* exportsObj.pack of the second implementation
packSecond(b) == sprotoPackSecond(b, 0, <<>>, 0).buffer

(***************************************************************************)
(* Two-packers scenario: a byte array is packed by the first definition    *)
(* of sprotoPack or by the second.                                         *)
(***************************************************************************)
InitPacks ==
    /\ pc = "bytes"
    /\ inbuf \in PackInputs
    /\ packed = <<>>
    /\ unpacked = <<>>
    /\ CodecIdle
    /\ RpcIdle
    /\ LoadIdle
    /\ EnvIdle

\* sprotoPack of lines 1148-1218
PackFirst ==
    /\ pc = "bytes"
    /\ packed' = pack(inbuf)
    /\ pc' = "packed by the first"
    /\ UNCHANGED <<inbuf, unpacked, codecVars, rpcVars, loadVars, alertDefined>>

\* sprotoPack of lines 2500-2557
PackSecond ==
    /\ pc = "bytes"
    /\ packed' = packSecond(inbuf)
    /\ pc' = "packed by the second"
    /\ UNCHANGED <<inbuf, unpacked, codecVars, rpcVars, loadVars, alertDefined>>

NextPacks == PackFirst \/ PackSecond

SpecPacks == InitPacks /\ [][NextPacks]_vars

\* C29: the two definitions of sprotoPack are equivalent: for every input
\* they produce the same packed output, also when a dense run starts at a
\* source offset greater than 0
C29_SamePacked ==
    /\ pc = "packed by the second" => packed = pack(inbuf)
    /\ pc = "packed by the first" => packed = packSecond(inbuf)

\* the same for the inputs none of whose dense runs starts past the first
\* block
C29_RunsFromStart ==
    (/\ pc \in { "packed by the first", "packed by the second" }
     /\ \A k \in 1..(NumBlocks(inbuf) - 1) : ~OpensRun(inbuf, k)) =>
        C29_SamePacked

\* a code unit of a surrogate pair
Surrogate(c) == c >= 55296 /\ c <= 57343

\* C30: UTF-8 round trip: for every string s, of characters of the basic
\* plane or of supplementary characters held as surrogate pairs,
\* utils.utf82string(utils.string2utf8(s)) is s, so a non-binary string
\* field decodes to the string that was encoded
C30_Utf8RoundTrip ==
    (/\ pc = "decoded"
     /\ rdtype = wrtype
     /\ wrtype = "Scalars"
     /\ "name" \in DOMAIN srcval) =>
        /\ utf82string(string2utf8(srcval.name)) = srcval.name
        /\ decoded.k = "ok"
        /\ "name" \in DOMAIN decoded.result
        /\ decoded.result.name = srcval.name

\* the same for the strings without surrogate pairs
C30_BasicPlane ==
    (/\ wrtype = "Scalars"
     /\ "name" \in DOMAIN srcval
     /\ \A i \in 1..Len(srcval.name) : ~Surrogate(srcval.name[i])) =>
        C30_Utf8RoundTrip

====
